---- MODULE Spec2Model ----
(***************************************************************************)
(* A model of the OpenAPI I/O explorer's schema pipeline                   *)
(* (src/components/OpenApiIoExplorer.tsx): the $ref resolver, the example  *)
(* materializer, the YAML emitter and the operation aggregator, and of the *)
(* loader behind it (src/app/api/openapi/route.ts).                        *)
(*                                                                         *)
(* Strings are sequences of one-character strings, so that the code's      *)
(* regular expressions, slices and character tests are computed and not    *)
(* assumed.  A JSON value is a tagged record [t, v]; a JavaScript object   *)
(* is a sequence of entries [k, v] kept in the order Object.keys reports.  *)
(* A schema is a record that holds exactly the keywords the schema sets.   *)
(***************************************************************************)
EXTENDS Integers, Sequences, FiniteSets, TLC

VARIABLES
    schemas,    \* doc.components.schemas: entries [k, v] in Object.entries order
    aliasMap,   \* buildSchemaResolver's Map, name -> schema
    cursor,     \* position of buildSchemaResolver's for loop in schemas
    ref,        \* the pointer last handed to the resolver
    resolved,   \* what the resolver returned for it
    root,       \* the schema handed to schemaToExample
    hops,       \* the nesting steps that lead from root down to its innermost node
    leaf,       \* that innermost node
    out,        \* the last result of schemaToExample
    ytext,      \* the text schemaToYaml returned
    declared,   \* the document as its JSON text declares it, keys in text order
    openApi,    \* the document as response.json() built it and the call left it
    parsed,     \* what openApiToMicroservices returned for it
    allParams,  \* the merged parameter list of each operation it filed
    source,     \* the text of the source field
    services,   \* the installed services
    error,      \* the load error shown, or null
    loading,    \* the loading flag
    loadedSource, \* the source of the installed document, or null
    specTitle,  \* its info.title, or null
    previewDoc, \* the installed document, or null
    loads,      \* the requests sent to the route, in order: what it answered, and
                \* whether the loadSource that sent it has resumed
    fsReads,    \* the paths the route has handed to fs.readFile
    phase       \* where the running specification stands

rvars == <<aliasMap, cursor, ref, resolved>>
evars == <<root, hops, leaf, out>>
yvars == <<ytext>>
avars == <<declared, openApi, parsed, allParams>>
uvars == <<source, services, error, loading, loadedSource, specTitle, previewDoc>>
lvars == <<uvars, loads, fsReads>>
vars == <<schemas, rvars, evars, yvars, avars, lvars, phase>>

----------------------------------------------------------------------------
(* Strings *)

Drop(s, n) == SubSeq(s, n + 1, Len(s))

StartsWith(s, p) == Len(s) >= Len(p) /\ SubSeq(s, 1, Len(p)) = p

\* String.prototype.indexOf for a one-character needle: 0-based, -1 when absent.
IndexOf(s, c) ==
    IF \E i \in 1..Len(s) : s[i] = c
    THEN (CHOOSE i \in 1..Len(s) : s[i] = c /\ \A j \in 1..(i - 1) : s[j] # c) - 1
    ELSE -1

Digits == {"0", "1", "2", "3", "4", "5", "6", "7", "8", "9"}
LowerLetters == {"a", "b", "c", "d", "e", "f", "g", "h", "i", "j", "k", "l", "m",
                 "n", "o", "p", "q", "r", "s", "t", "u", "v", "w", "x", "y", "z"}
UpperLetters == {"A", "B", "C", "D", "E", "F", "G", "H", "I", "J", "K", "L", "M",
                 "N", "O", "P", "Q", "R", "S", "T", "U", "V", "W", "X", "Y", "Z"}

LowerSeq == <<"a", "b", "c", "d", "e", "f", "g", "h", "i", "j", "k", "l", "m",
              "n", "o", "p", "q", "r", "s", "t", "u", "v", "w", "x", "y", "z">>
UpperSeq == <<"A", "B", "C", "D", "E", "F", "G", "H", "I", "J", "K", "L", "M",
              "N", "O", "P", "Q", "R", "S", "T", "U", "V", "W", "X", "Y", "Z">>
DigitSeq == <<"0", "1", "2", "3", "4", "5", "6", "7", "8", "9">>

\* The position of c in seq (1-based); 0 when it is not there.
PosIn(seq, c) ==
    IF \E i \in 1..Len(seq) : seq[i] = c
    THEN CHOOSE i \in 1..Len(seq) : seq[i] = c
    ELSE 0

\* String.prototype.toLowerCase / toUpperCase on one character.
LowerChar(c) == IF c \in UpperLetters THEN LowerSeq[PosIn(UpperSeq, c)] ELSE c
UpperChar(c) == IF c \in LowerLetters THEN UpperSeq[PosIn(LowerSeq, c)] ELSE c
toLowerCase(s) == [i \in 1..Len(s) |-> LowerChar(s[i])]

DigitVal(c) == PosIn(DigitSeq, c) - 1

----------------------------------------------------------------------------
(* JSON values and JavaScript objects *)

JStr(s) == [t |-> "str", v |-> s]
JNum(n) == [t |-> "num", v |-> n]
JBool(b) == [t |-> "bool", v |-> b]
JNull == [t |-> "null"]
JObj(entries) == [t |-> "obj", v |-> entries]
JArr(items) == [t |-> "arr", v |-> items]

Keys(entries) == [i \in 1..Len(entries) |-> entries[i].k]
HasKey(entries, k) == \E i \in 1..Len(entries) : entries[i].k = k
Lookup(entries, k) == entries[CHOOSE i \in 1..Len(entries) : entries[i].k = k].v

RECURSIVE NatOf(_)
NatOf(s) == IF s = <<>> THEN 0 ELSE 10 * NatOf(SubSeq(s, 1, Len(s) - 1)) + DigitVal(s[Len(s)])

\* An array index in the sense of OrdinaryOwnPropertyKeys: a canonical decimal
\* numeral below 2^32 - 1.  Such keys are listed first, in numeric order.
IsArrayIndex(k) ==
    /\ Len(k) >= 1
    /\ Len(k) <= 9
    /\ \A i \in 1..Len(k) : k[i] \in Digits
    /\ (Len(k) > 1 => k[1] # "0")

\* obj[k] = v on an ordinary object: an existing key keeps its place; a new
\* array-index key goes among the index keys in numeric order; any other new key
\* goes last.
ObjSet(entries, k, v) ==
    IF HasKey(entries, k)
    THEN [i \in 1..Len(entries) |-> IF entries[i].k = k THEN [k |-> k, v |-> v] ELSE entries[i]]
    ELSE IF IsArrayIndex(k)
    THEN LET before == {i \in 1..Len(entries) :
                           IsArrayIndex(entries[i].k) /\ NatOf(entries[i].k) < NatOf(k)}
             n == Cardinality(before)
         IN SubSeq(entries, 1, n) \o <<[k |-> k, v |-> v]>> \o Drop(entries, n)
    ELSE Append(entries, [k |-> k, v |-> v])

\* Object.assign(target, source) / { ...source } onto target.
RECURSIVE ObjAssign(_, _)
ObjAssign(target, members) ==
    IF members = <<>> THEN target
    ELSE ObjAssign(ObjSet(target, members[1].k, members[1].v), Tail(members))

----------------------------------------------------------------------------
(* Schemas *)

Has(s, f) == f \in DOMAIN s

\* typeof schema === "boolean"
IsBoolSchema(s) == Has(s, "bool")
SchemaTrue == [bool |-> TRUE]
SchemaFalse == [bool |-> FALSE]

\* A resolver miss (undefined).
Absent == [absent |-> TRUE]

\* JavaScript truthiness of a JsonSchema | undefined.
Truthy(s) == ~Has(s, "absent") /\ (IsBoolSchema(s) => s.bool)

----------------------------------------------------------------------------
(* Schema resolver *)

RefPrefix == <<"#", "/", "c", "o", "m", "p", "o", "n", "e", "n", "t", "s", "/",
               "s", "c", "h", "e", "m", "a", "s", "/">>

\* What "." of a regular expression does not match.
LineTerminators == {"\n", "\r"}

HexDigits == Digits \cup {"a", "b", "c", "d", "e", "f", "A", "B", "C", "D", "E", "F"}

\* The ASCII escapes this model decodes; any other byte is one that does not
\* start a valid UTF-8 sequence on its own (%FF, %80), for which
\* decodeURIComponent throws.
PctKnown(h1, h2) == <<UpperChar(h1), UpperChar(h2)>> \in
    {<<"2", "D">>, <<"2", "F">>, <<"7", "E">>, <<"2", "5">>, <<"4", "1">>, <<"2", "E">>}
PctChar(h1, h2) ==
    LET code == <<UpperChar(h1), UpperChar(h2)>>
    IN CASE code = <<"2", "D">> -> "-"
         [] code = <<"2", "F">> -> "/"
         [] code = <<"7", "E">> -> "~"
         [] code = <<"2", "5">> -> "%"
         [] code = <<"4", "1">> -> "A"
         [] code = <<"2", "E">> -> "."

\* decodeURIComponent: [ok, out]; ok is FALSE where the built-in throws URIError.
RECURSIVE decodeURIComponent(_)
decodeURIComponent(s) ==
    IF s = <<>> THEN [ok |-> TRUE, out |-> <<>>]
    ELSE IF s[1] # "%"
    THEN LET r == decodeURIComponent(Tail(s))
         IN [ok |-> r.ok, out |-> <<s[1]>> \o r.out]
    ELSE IF Len(s) < 3 \/ s[2] \notin HexDigits \/ s[3] \notin HexDigits
              \/ ~PctKnown(s[2], s[3])
    THEN [ok |-> FALSE, out |-> <<>>]
    ELSE LET r == decodeURIComponent(Drop(s, 3))
         IN [ok |-> r.ok, out |-> <<PctChar(s[2], s[3])>> \o r.out]

\* s.replace(/~X/g, to) for a two-character pattern "~" X.
RECURSIVE ReplaceTilde(_, _, _)
ReplaceTilde(s, x, to) ==
    IF s = <<>> THEN <<>>
    ELSE IF Len(s) >= 2 /\ s[1] = "~" /\ s[2] = x
    THEN <<to>> \o ReplaceTilde(Drop(s, 2), x, to)
    ELSE <<s[1]>> \o ReplaceTilde(Tail(s), x, to)

decodeRefPointer(pointer) == ReplaceTilde(ReplaceTilde(pointer, "1", "/"), "0", "~")

EmptyMap == [n \in {} |-> Absent]
MapSet(m, k, v) == [n \in (DOMAIN m) \cup {k} |-> IF n = k THEN v ELSE m[n]]

\* The key's own registration guarded by has(), as the aliases are.
RegisterKey_IfAbsent(m, key, schema) ==
    IF key \in DOMAIN m THEN m ELSE MapSet(m, key, schema)

\* The key's own registration (line 937).
RegisterKey(m, key, schema) == MapSet(m, key, schema)

\* The xml.name alias (lines 938-943); "" and a missing name register nothing.
RegisterXmlName(m, schema) ==
    LET xmlName == IF ~IsBoolSchema(schema) /\ Has(schema, "xml") /\ Has(schema.xml, "name")
                   THEN schema.xml.name ELSE <<>>
    IN IF xmlName # <<>> /\ xmlName \notin DOMAIN m
       THEN MapSet(m, xmlName, schema) ELSE m

\* The hyphen alias written without its has() test: it replaces a binding.
RegisterHyphenBase_Overwrite(m, key, schema) ==
    LET hyphenIndex == IndexOf(key, "-")
    IN IF hyphenIndex > 0
       THEN MapSet(m, SubSeq(key, 1, hyphenIndex), schema) ELSE m

\* The hyphen alias left out.
RegisterHyphenBase_Never(m, key, schema) == m

\* The hyphen alias (lines 944-950).
RegisterHyphenBase(m, key, schema) ==
    LET hyphenIndex == IndexOf(key, "-")
        base == SubSeq(key, 1, hyphenIndex)
    IN IF hyphenIndex > 0 /\ base \notin DOMAIN m
       THEN MapSet(m, base, schema) ELSE m

\* One pass of the for loop of buildSchemaResolver.
RegisterEntry(m, key, schema) ==
    RegisterHyphenBase(RegisterXmlName(RegisterKey(m, key, schema), schema), key, schema)

\* The whole loop: the Map the returned closure reads.
RECURSIVE BuildFrom(_, _, _)
BuildFrom(m, entries, i) ==
    IF i > Len(entries) THEN m
    ELSE BuildFrom(RegisterEntry(m, entries[i].k, entries[i].v), entries, i + 1)

buildSchemaResolver(entries) == BuildFrom(EmptyMap, entries, 1)

\* ref.match(/^#\/components\/schemas\/(.+)$/)
RefMatches(r) ==
    /\ StartsWith(r, RefPrefix)
    /\ Len(r) > Len(RefPrefix)
    /\ \A i \in (Len(RefPrefix) + 1)..Len(r) : r[i] \notin LineTerminators

\* The name the closure looks up: the match's group, percent-decoded (the raw
\* group where decodeURIComponent throws), then JSON-Pointer-unescaped.
RefName(r) ==
    LET rawName == Drop(r, Len(RefPrefix))
        dec == decodeURIComponent(rawName)
        decoded == IF dec.ok THEN dec.out ELSE rawName
    IN decodeRefPointer(decoded)

\* An exception leaving the closure.
Raised == [raised |-> TRUE]

\* The closure without its try/catch: a URIError escapes.
resolveRef_NoCatch(m, r) ==
    IF r = <<>> THEN Absent
    ELSE IF ~RefMatches(r) THEN Absent
    ELSE IF ~decodeURIComponent(Drop(r, Len(RefPrefix))).ok THEN Raised
    ELSE IF RefName(r) \in DOMAIN m THEN m[RefName(r)] ELSE Absent

\* The closure buildSchemaResolver returns.
resolveRef(m, r) ==
    IF r = <<>> THEN Absent
    ELSE IF ~RefMatches(r) THEN Absent
    ELSE IF RefName(r) \in DOMAIN m THEN m[RefName(r)] ELSE Absent

----------------------------------------------------------------------------
(* Example materializer *)

CircularSentinel == <<"<", "c", "i", "r", "c", "u", "l", "a", "r", ">">>
DepthSentinel == <<"<", "d", "e", "p", "t", "h", "-", "l", "i", "m", "i", "t", ">">>
AnySentinel == <<"<", "a", "n", "y", ">">>
NeverSentinel == <<"<", "n", "e", "v", "e", "r", ">">>
ValueLiteral == <<"v", "a", "l", "u", "e">>
AdditionalProp1 == <<"a", "d", "d", "i", "t", "i", "o", "n", "a", "l", "P", "r", "o", "p", "1">>

\* pickExampleValue's "nothing found".
Undefined == [undefined |-> TRUE]

\* pickExampleValue with default looked at before examples.
pickExampleValue_DefaultFirst(schema) ==
    IF Has(schema, "example") THEN schema.example
    ELSE IF Has(schema, "default") THEN schema.default
    ELSE IF Has(schema, "examples") /\ Len(schema.examples) > 0 THEN schema.examples[1]
    ELSE IF Has(schema, "enum") /\ Len(schema.enum) > 0 THEN schema.enum[1]
    ELSE Undefined

pickExampleValue(schema) ==
    IF Has(schema, "example") THEN schema.example
    ELSE IF Has(schema, "examples") /\ Len(schema.examples) > 0 THEN schema.examples[1]
    ELSE IF Has(schema, "default") THEN schema.default
    ELSE IF Has(schema, "enum") /\ Len(schema.enum) > 0 THEN schema.enum[1]
    ELSE Undefined

isPlainObject(value) == value.t = "obj"

\* format is "" where the schema sets none.
stringFallbackForFormat(format) ==
    CASE format = "date" -> <<"2", "0", "2", "4", "-", "0", "1", "-", "0", "1">>
      [] format = "date-time" ->
             <<"2", "0", "2", "4", "-", "0", "1", "-", "0", "1", "T",
               "0", "0", ":", "0", "0", ":", "0", "0", "Z">>
      [] format = "uuid" ->
             <<"3", "f", "a", "8", "5", "f", "6", "4", "-", "5", "7", "1", "7", "-",
               "4", "5", "6", "2", "-", "b", "3", "f", "c", "-",
               "2", "c", "9", "6", "3", "f", "6", "6", "a", "f", "a", "6">>
      [] format = "email" ->
             <<"u", "s", "e", "r", "@", "e", "x", "a", "m", "p", "l", "e", ".", "c", "o", "m">>
      [] format \in {"uri", "url"} ->
             <<"h", "t", "t", "p", "s", ":", "/", "/",
               "e", "x", "a", "m", "p", "l", "e", ".", "c", "o", "m">>
      [] format = "hostname" -> <<"e", "x", "a", "m", "p", "l", "e", ".", "c", "o", "m">>
      [] format = "ipv4" -> <<"1", "9", "2", ".", "1", "6", "8", ".", "0", ".", "1">>
      [] format = "ipv6" -> <<"2", "0", "0", "1", ":", "d", "b", "8", ":", ":", "1">>
      [] OTHER -> <<"s", "t", "r", "i", "n", "g">>

\* The punctuation of the root collation, in its order.
PunctuationSeq == <<"_", "-", ",", ";", ":", "!", "?", ".", "'", "\"", "(", ")", "[", "]",
                    "{", "}", "@", "*", "/", "\\", "&", "#", "%">>

\* String.prototype.localeCompare on ASCII text, in the root collation:
\* punctuation before digits, digits before letters, letters by alphabet
\* whatever their case, and on a tie a lower-case letter before its upper-case
\* form.
PrimaryWeight(c) ==
    IF c \in Digits THEN DigitVal(c) + 1
    ELSE IF LowerChar(c) \in LowerLetters THEN 10 + PosIn(LowerSeq, LowerChar(c))
    ELSE IF PosIn(PunctuationSeq, c) > 0 THEN PosIn(PunctuationSeq, c) - 30
    ELSE 0
CaseWeight(c) == IF c \in UpperLetters THEN 1 ELSE 0

RECURSIVE LexCompare(_, _)
LexCompare(a, b) ==
    IF a = <<>> /\ b = <<>> THEN 0
    ELSE IF a = <<>> THEN -1
    ELSE IF b = <<>> THEN 1
    ELSE IF a[1] < b[1] THEN -1
    ELSE IF a[1] > b[1] THEN 1
    ELSE LexCompare(Tail(a), Tail(b))

localeCompare(a, b) ==
    LET primary == LexCompare([i \in 1..Len(a) |-> PrimaryWeight(a[i])],
                              [i \in 1..Len(b) |-> PrimaryWeight(b[i])])
    IN IF primary # 0 THEN primary
       ELSE LexCompare([i \in 1..Len(a) |-> CaseWeight(a[i])],
                       [i \in 1..Len(b) |-> CaseWeight(b[i])])

\* The comparator of lines 1048-1053.
CompareKeys(a, b, required) ==
    IF (a \in required) # (b \in required)
    THEN (IF a \in required THEN -1 ELSE 1)
    ELSE localeCompare(a, b)

\* Array.prototype.sort with that comparator (a stable sort).
RECURSIVE SortKeys(_, _)
SortKeys(keys, required) ==
    IF keys = <<>> THEN <<>>
    ELSE LET sorted == SortKeys(SubSeq(keys, 1, Len(keys) - 1), required)
             x == keys[Len(keys)]
             n == Cardinality({i \in 1..Len(sorted) : CompareKeys(sorted[i], x, required) <= 0})
         IN SubSeq(sorted, 1, n) \o <<x>> \o Drop(sorted, n)

Range(seq) == {seq[i] : i \in 1..Len(seq)}

DepthLimit == 6

\* depth > 6 written as depth >= 6.
DepthExceeded_OffByOne(depth) == depth >= DepthLimit

\* The cut of line 1011.
DepthExceeded(depth) == depth > DepthLimit

\* The cycle guard left out.
InFlight_Never(seenRefs, pointer) == FALSE

\* seenRefs.has(schema.$ref), line 1017.
InFlight(seenRefs, pointer) == pointer \in seenRefs

\* seenRefs.add(schema.$ref), line 1021.
Enter(seenRefs, pointer) == seenRefs \cup {pointer}

\* The pointer left in the set once the target is materialized.
Leave_Kept(seenRefs, pointer) == seenRefs

\* seenRefs.delete(schema.$ref), line 1023.
Leave(seenRefs, pointer) == seenRefs \ {pointer}

\* schema.type === t
TypeIs(schema, t) == Has(schema, "type") /\ schema.type = t

\* The test of line 1045; allOfBase is non-null when the reduce saw an object.
IsObjectLike(schema, hasAllOfBase) ==
    \/ TypeIs(schema, "object")
    \/ Has(schema, "properties")
    \/ (Has(schema, "additionalProperties") /\ Truthy(schema.additionalProperties))
    \/ hasAllOfBase

\* The test of line 1070.
IsArrayLike(schema) ==
    \/ TypeIs(schema, "array")
    \/ (Has(schema, "items") /\ Truthy(schema.items))

NonEmpty(schema, f) == Has(schema, f) /\ Len(schema[f]) > 0

\* One call of schemaToExample as it was made and as it returned: the schema and
\* depth it was given, the in-flight set on entry and on return, and its value.
Frame(schema, depth, seenIn, r) ==
    [schema |-> schema, depth |-> depth, seenIn |-> seenIn,
     value |-> r.value, seenOut |-> r.seen]

\* A call's outcome: its value, the in-flight set it leaves behind, and the
\* calls made below it.
Ret(value, seen, log) == [value |-> value, seen |-> seen, log |-> log]

RECURSIVE schemaToExample(_, _, _, _)
RECURSIVE AllOfReduce(_, _, _, _)
RECURSIVE PropertyLoop(_, _, _, _, _, _)

\* The reduce of lines 1034-1041 over allOf.
AllOfReduce(items, m, seenRefs, depth) ==
    IF items = <<>>
    THEN [acc |-> <<>>, hasObject |-> FALSE, seen |-> seenRefs, log |-> {}]
    ELSE LET prev == AllOfReduce(SubSeq(items, 1, Len(items) - 1), m, seenRefs, depth)
             r == schemaToExample(items[Len(items)], m, prev.seen, depth + 1)
             obj == isPlainObject(r.value)
         IN [acc |-> IF obj THEN ObjAssign(prev.acc, r.value.v) ELSE prev.acc,
             hasObject |-> prev.hasObject \/ obj,
             seen |-> r.seen,
             log |-> prev.log \cup r.log]

\* The for loop of lines 1055-1058 over the sorted keys.
PropertyLoop(keys, properties, m, seenRefs, depth, result) ==
    IF keys = <<>>
    THEN [result |-> result, seen |-> seenRefs, log |-> {}]
    ELSE LET prev == PropertyLoop(SubSeq(keys, 1, Len(keys) - 1), properties, m,
                                  seenRefs, depth, result)
             key == keys[Len(keys)]
             r == schemaToExample(Lookup(properties, key), m, prev.seen, depth + 1)
         IN [result |-> ObjSet(prev.result, key, r.value),
             seen |-> r.seen,
             log |-> prev.log \cup r.log]

\* Lines 1031-1101: the rules after $ref and the direct example.
ExampleBody(schema, m, seenRefs, depth) ==
    LET red == IF NonEmpty(schema, "allOf")
               THEN AllOfReduce(schema.allOf, m, seenRefs, depth)
               ELSE [acc |-> <<>>, hasObject |-> FALSE, seen |-> seenRefs, log |-> {}]
    IN
    IF IsObjectLike(schema, red.hasObject)
    THEN LET properties == IF Has(schema, "properties") THEN schema.properties ELSE <<>>
             required == IF Has(schema, "required") THEN Range(schema.required) ELSE {}
             keys == SortKeys(Keys(properties), required)
             base == IF red.hasObject THEN ObjAssign(<<>>, red.acc) ELSE <<>>
             loop == PropertyLoop(keys, properties, m, red.seen, depth, base)
         IN IF keys = <<>> /\ Has(schema, "additionalProperties")
                           /\ Truthy(schema.additionalProperties)
            THEN IF IsBoolSchema(schema.additionalProperties)
                 THEN Ret(JObj(ObjSet(loop.result, AdditionalProp1, JStr(AnySentinel))),
                          loop.seen, red.log \cup loop.log)
                 ELSE LET r == schemaToExample(schema.additionalProperties, m,
                                               loop.seen, depth + 1)
                      IN Ret(JObj(ObjSet(loop.result, AdditionalProp1, r.value)),
                             r.seen, red.log \cup loop.log \cup r.log)
            ELSE Ret(JObj(loop.result), loop.seen, red.log \cup loop.log)
    ELSE IF IsArrayLike(schema)
    THEN IF Has(schema, "items") /\ IsBoolSchema(schema.items) /\ ~schema.items.bool
         THEN Ret(JArr(<<>>), red.seen, red.log)
         ELSE IF Has(schema, "items") /\ IsBoolSchema(schema.items)
         THEN Ret(JArr(<<JStr(AnySentinel)>>), red.seen, red.log)
         ELSE LET itemsSchema == IF Has(schema, "items") THEN schema.items
                                 ELSE [type |-> "string"]
                  r == schemaToExample(itemsSchema, m, red.seen, depth + 1)
              IN Ret(JArr(<<r.value>>), r.seen, red.log \cup r.log)
    ELSE IF ~red.hasObject /\ NonEmpty(schema, "allOf")
    THEN LET r == schemaToExample(schema.allOf[1], m, red.seen, depth + 1)
         IN Ret(r.value, r.seen, red.log \cup r.log)
    ELSE IF NonEmpty(schema, "oneOf")
    THEN LET r == schemaToExample(schema.oneOf[1], m, red.seen, depth + 1)
         IN Ret(r.value, r.seen, red.log \cup r.log)
    ELSE IF NonEmpty(schema, "anyOf")
    THEN LET r == schemaToExample(schema.anyOf[1], m, red.seen, depth + 1)
         IN Ret(r.value, r.seen, red.log \cup r.log)
    ELSE IF TypeIs(schema, "string")
    THEN Ret(JStr(stringFallbackForFormat(IF Has(schema, "format") THEN schema.format ELSE "")),
             red.seen, red.log)
    ELSE IF TypeIs(schema, "integer") \/ TypeIs(schema, "number")
    THEN Ret(JNum(0), red.seen, red.log)
    ELSE IF TypeIs(schema, "boolean")
    THEN Ret(JBool(FALSE), red.seen, red.log)
    ELSE Ret(JStr(ValueLiteral), red.seen, red.log)

\* Lines 1011-1029: the depth cut, the boolean schemas, $ref and the direct
\* example.  A schema here is an object or a boolean, as JsonSchema types it.
ExampleHead(schema, m, seenRefs, depth) ==
    IF DepthExceeded(depth) THEN Ret(JStr(DepthSentinel), seenRefs, {})
    ELSE IF IsBoolSchema(schema)
    THEN Ret(JStr(IF schema.bool THEN AnySentinel ELSE NeverSentinel), seenRefs, {})
    ELSE IF Has(schema, "ref") /\ schema.ref # <<>>
    THEN IF InFlight(seenRefs, schema.ref)
         THEN Ret(JStr(CircularSentinel), seenRefs, {})
         ELSE LET target == resolveRef(m, schema.ref)
              IN IF Truthy(target)
                 THEN LET r == schemaToExample(target, m, Enter(seenRefs, schema.ref),
                                               depth + 1)
                      IN Ret(r.value, Leave(r.seen, schema.ref), r.log)
                 ELSE Ret(JStr(schema.ref), seenRefs, {})
    ELSE LET directExample == pickExampleValue(schema)
         IN IF ~Has(directExample, "undefined")
            THEN Ret(directExample, seenRefs, {})
            ELSE ExampleBody(schema, m, seenRefs, depth)

\* schemaToExample(schema, resolveRef, seenRefs, depth), with the call recorded.
schemaToExample(schema, m, seenRefs, depth) ==
    LET r == ExampleHead(schema, m, seenRefs, depth)
    IN Ret(r.value, r.seen, r.log \cup {Frame(schema, depth, seenRefs, r)})

----------------------------------------------------------------------------
(* YAML emitter *)

\* SAFE_STRING = /^[a-zA-Z0-9._/=-]+$/
SafeChars == LowerLetters \cup UpperLetters \cup Digits \cup {".", "_", "/", "=", "-"}
SAFE_STRING(value) == Len(value) >= 1 /\ \A i \in 1..Len(value) : value[i] \in SafeChars

YAML_KEYWORDS ==
    { <<"t", "r", "u", "e">>, <<"f", "a", "l", "s", "e">>, <<"n", "u", "l", "l">>, <<"~">>,
      <<"y", "e", "s">>, <<"n", "o">>, <<"o", "n">>, <<"o", "f", "f">> }

\* JSON.stringify's escape of one character of a string (QuoteJSONString).
JsonEscape(c) ==
    CASE c = "\"" -> <<"\\", "\"">>
      [] c = "\\" -> <<"\\", "\\">>
      [] c = "\n" -> <<"\\", "n">>
      [] c = "\r" -> <<"\\", "r">>
      [] c = "\t" -> <<"\\", "t">>
      [] OTHER -> <<c>>

RECURSIVE JsonEscapeAll(_)
JsonEscapeAll(s) == IF s = <<>> THEN <<>> ELSE JsonEscape(s[1]) \o JsonEscapeAll(Tail(s))

\* JSON.stringify(value) for a string.
JsonStringify(s) == <<"\"">> \o JsonEscapeAll(s) \o <<"\"">>

\* String(value) for an integer.
RECURSIVE NatToString(_)
NatToString(n) ==
    IF n < 10 THEN <<DigitSeq[n + 1]>>
    ELSE NatToString(n \div 10) \o <<DigitSeq[(n % 10) + 1]>>
NumberToString(n) == IF n < 0 THEN <<"-">> \o NatToString(-n) ELSE NatToString(n)

\* The quoting test with the keyword test left out.
IsBareword_NoKeywords(value) == SAFE_STRING(value)

\* SAFE_STRING.test(value) && !YAML_KEYWORDS.has(value.toLowerCase())
IsBareword(value) == SAFE_STRING(value) /\ toLowerCase(value) \notin YAML_KEYWORDS

\* formatYamlScalar, for the scalars a JSON document holds.
formatYamlScalar(value) ==
    CASE value.t = "null" -> <<"n", "u", "l", "l">>
      [] value.t = "str" -> IF IsBareword(value.v) THEN value.v ELSE JsonStringify(value.v)
      [] value.t = "num" -> NumberToString(value.v)
      [] value.t = "bool" -> IF value.v THEN <<"t", "r", "u", "e">>
                             ELSE <<"f", "a", "l", "s", "e">>

formatYamlKey(value) == IF IsBareword(value) THEN value ELSE JsonStringify(value)

\* " ".repeat(indent)
Pad(indent) == [i \in 1..indent |-> " "]

IsCollection(item) == item.t \in {"obj", "arr"}

\* array.flatMap(f): the concatenation of f's results.
RECURSIVE FlatMapLines(_, _, _)
RECURSIVE yamlLines(_, _)

\* The callbacks of lines 1145-1150 (items of an array) and 1156-1162 (entries
\* of an object), applied from entry i on.
FlatMapLines(value, indent, i) ==
    IF i > Len(value.v) THEN <<>>
    ELSE LET item == IF value.t = "arr" THEN value.v[i] ELSE value.v[i].v
             head == IF value.t = "arr" THEN <<"-">>
                     ELSE formatYamlKey(value.v[i].k) \o <<":">>
             these == IF IsCollection(item)
                      THEN <<Pad(indent) \o head>> \o yamlLines(item, indent + 2)
                      ELSE <<Pad(indent) \o head \o <<" ">> \o formatYamlScalar(item)>>
         IN these \o FlatMapLines(value, indent, i + 1)

yamlLines(value, indent) ==
    IF value.t = "arr"
    THEN IF value.v = <<>> THEN <<Pad(indent) \o <<"[", "]">>>>
         ELSE FlatMapLines(value, indent, 1)
    ELSE IF value.t = "obj"
    THEN IF value.v = <<>> THEN <<Pad(indent) \o <<"{", "}">>>>
         ELSE FlatMapLines(value, indent, 1)
    ELSE <<Pad(indent) \o formatYamlScalar(value)>>

\* lines.join("\n")
RECURSIVE JoinLines(_)
JoinLines(lines) ==
    IF lines = <<>> THEN <<>>
    ELSE IF Len(lines) = 1 THEN lines[1]
    ELSE lines[1] \o <<"\n">> \o JoinLines(Tail(lines))

\* schemaToYaml(schema, resolveRef)
schemaToYaml(schema, m) ==
    JoinLines(yamlLines(schemaToExample(schema, m, {}, 0).value, 0))

----------------------------------------------------------------------------
(* The resolver at work: a document's components.schemas is declared, the    *)
(* resolver is built from it entry by entry, and pointers are resolved.      *)

MaxSchemas == 2

NamePet == <<"P", "e", "t">>
NamePetV2 == <<"P", "e", "t", "-", "v", "2">>
NamePetV1 == <<"P", "e", "t", "-", "v", "1">>
NameSlash == <<"a", "/", "b">>
NameDashX == <<"-", "x">>
NameZed == <<"Z">>
NameCat == <<"C", "a", "t">>

ComponentKeys == {NamePet, NamePetV2, NamePetV1, NameSlash, NameDashX}

\* The schemas a component may be declared with; each declared schema carries
\* its key as title, so that two components never hold equal schemas.
ComponentBodies ==
    { [type |-> "object"],
      [type |-> "string", xml |-> [name |-> NamePet]],
      [type |-> "integer", xml |-> [name |-> NameZed]] }

PointerTo(name) == RefPrefix \o name

RefPool ==
    { PointerTo(k) : k \in ComponentKeys } \cup
    { PointerTo(NameZed), PointerTo(NameCat),
      PointerTo(<<"P", "e", "t", "%", "2", "D", "v", "2">>),
      PointerTo(<<"a", "~", "1", "b">>),
      PointerTo(<<"%", "z", "z">>),
      PointerTo(<<"P", "e", "t", "\n", "X">>),
      <<>>,
      RefPrefix,
      <<"#", "/", "d", "e", "f", "i", "n", "i", "t", "i", "o", "n", "s", "/", "P", "e", "t">>,
      <<"#", "/", "c", "o", "m", "p", "o", "n", "e", "n", "t", "s", "/",
        "r", "e", "s", "p", "o", "n", "s", "e", "s", "/", "P", "e", "t">>,
      <<"o", "t", "h", "e", "r", ".", "j", "s", "o", "n">> \o PointerTo(NamePet) }

ResolverIdle == aliasMap = EmptyMap /\ cursor = 0 /\ ref = <<>> /\ resolved = Absent
ExampleIdle == root = SchemaTrue /\ hops = <<>> /\ leaf = SchemaTrue /\ out = Absent
YamlIdle == ytext = <<>>
AggregateIdle == declared = <<>> /\ openApi = <<>> /\ parsed = <<>> /\ allParams = <<>>
LoaderIdle ==
    /\ source = <<>>
    /\ services = <<>>
    /\ error = JNull
    /\ loading = FALSE
    /\ loadedSource = JNull
    /\ specTitle = JNull
    /\ previewDoc = JNull
    /\ loads = <<>>
    /\ fsReads = {}

InitResolver ==
    /\ LoaderIdle
    /\ schemas = <<>>
    /\ phase = "doc"
    /\ ResolverIdle
    /\ AggregateIdle
    /\ ExampleIdle
    /\ YamlIdle

\* The document gains a component schema (JSON.parse adds the key).
DeclareSchema(key, body) ==
    /\ phase = "doc"
    /\ Len(schemas) < MaxSchemas
    /\ ~HasKey(schemas, key)
    /\ schemas' = ObjSet(schemas, key, body @@ [title |-> key])
    /\ UNCHANGED <<lvars, avars, rvars, evars, yvars, phase>>

\* buildSchemaResolver is entered: the Map is created empty.
BuildStart ==
    /\ phase = "doc"
    /\ phase' = "build"
    /\ aliasMap' = EmptyMap
    /\ cursor' = 1
    /\ UNCHANGED <<lvars, avars, schemas, ref, resolved, evars, yvars>>

\* One iteration of its for loop.
BuildStep ==
    /\ phase = "build"
    /\ cursor <= Len(schemas)
    /\ aliasMap' = RegisterEntry(aliasMap, schemas[cursor].k, schemas[cursor].v)
    /\ cursor' = cursor + 1
    /\ UNCHANGED <<lvars, avars, schemas, ref, resolved, evars, yvars, phase>>

\* The loop is over and the closure is returned.
BuildDone ==
    /\ phase = "build"
    /\ cursor > Len(schemas)
    /\ phase' = "ready"
    /\ UNCHANGED <<lvars, avars, schemas, rvars, evars, yvars>>

\* The closure is called with a pointer.
Resolve(pointer) ==
    /\ phase \in {"ready", "resolved"}
    /\ phase' = "resolved"
    /\ ref' = pointer
    /\ resolved' = resolveRef(aliasMap, pointer)
    /\ UNCHANGED <<lvars, avars, schemas, aliasMap, cursor, evars, yvars>>

NextResolver ==
    \/ \E key \in ComponentKeys, body \in ComponentBodies : DeclareSchema(key, body)
    \/ BuildStart
    \/ BuildStep
    \/ BuildDone
    \/ \E pointer \in RefPool : Resolve(pointer)

SpecResolver == InitResolver /\ [][NextResolver]_vars

----------------------------------------------------------------------------
(* Claims about the resolver, checked under SpecResolver *)

\* The claim's own reading of "has the shape #/components/schemas/<name>".
HasRefShape(p) ==
    \E n \in 1..Len(p) :
        /\ n < Len(p)
        /\ SubSeq(p, 1, n) = <<"#", "/", "c", "o", "m", "p", "o", "n", "e", "n", "t", "s", "/",
                               "s", "c", "h", "e", "m", "a", "s", "/">>

XmlNameOf(schema) ==
    IF ~IsBoolSchema(schema) /\ Has(schema, "xml") /\ Has(schema.xml, "name")
    THEN schema.xml.name ELSE <<>>
HyphenBaseOf(key) == SubSeq(key, 1, IndexOf(key, "-"))
KeyIndex(entries, k) == CHOOSE i \in 1..Len(entries) : entries[i].k = k

\* C6: resolve never raises; it returns absent for every pointer that lacks the
\* shape #/components/schemas/<name> (the empty pointer, other sections,
\* external references) and for every pointer whose decoded name is not in the
\* table; and the table is still the one built from the document.
C6_AbsentNotRaised ==
    phase = "resolved" =>
        /\ ~Has(resolved, "raised")
        /\ (~HasRefShape(ref) \/ RefName(ref) \notin DOMAIN aliasMap) => Has(resolved, "absent")
        /\ aliasMap = buildSchemaResolver(schemas)

\* C6 witness: a malformed percent escape was resolved against a table of two
\* schemas, and the answer was absent.
C6_Witness ==
    /\ phase = "resolved"
    /\ Len(schemas) = 2
    /\ ref = PointerTo(<<"%", "z", "z">>)
    /\ Has(resolved, "absent")

\* C7 as stated: during the build, a name that is in the table stays bound to
\* the schema that registered it first.
C7_FirstRegistrationWins ==
    [][phase = "build" =>
          \A n \in DOMAIN aliasMap : n \in DOMAIN aliasMap' /\ aliasMap'[n] = aliasMap[n]]_vars

\* C7 amended: a build step binds the entry's own key to the entry's schema,
\* whatever claimed that name before, and changes no other binding: an xml.name
\* or hyphen alias for a name already in the table is dropped.
C7_AliasesNeverRebind ==
    [][(phase = "build" /\ cursor' = cursor + 1) =>
          /\ aliasMap'[schemas[cursor].k] = schemas[cursor].v
          /\ \A n \in DOMAIN aliasMap :
                /\ n \in DOMAIN aliasMap'
                /\ n # schemas[cursor].k => aliasMap'[n] = aliasMap[n]]_vars

\* C7 witness: the second entry's hyphen alias was dropped, the name being
\* bound to the first entry's schema.
C7_Witness ==
    /\ phase = "build"
    /\ cursor = 3
    /\ IndexOf(schemas[2].k, "-") > 0
    /\ HyphenBaseOf(schemas[2].k) \in DOMAIN aliasMap
    /\ aliasMap[HyphenBaseOf(schemas[2].k)] = schemas[1].v
    /\ schemas[1].v # schemas[2].v

\* C26: a pointer whose name is a key of components.schemas resolves to the
\* schema declared under that key, whatever was declared before it and whatever
\* alias was registered for the name; and a pointer that resolves under a name
\* that is no key gets a schema whose xml.name or hyphen base the name is.
C26_KeyBeatsAlias ==
    (phase = "resolved" /\ HasRefShape(ref)) =>
        /\ HasKey(schemas, RefName(ref)) => resolved = Lookup(schemas, RefName(ref))
        /\ (~HasKey(schemas, RefName(ref)) /\ ~Has(resolved, "absent")) =>
              \E i \in 1..Len(schemas) :
                 /\ resolved = schemas[i].v
                 /\ \/ XmlNameOf(schemas[i].v) = RefName(ref)
                    \/ (IndexOf(schemas[i].k, "-") > 0
                          /\ HyphenBaseOf(schemas[i].k) = RefName(ref))

\* C26 witness: Pet-v2, declared first with the xml.name Pet, registered the
\* name Pet twice over; Pet was declared after it, and the pointer to Pet
\* resolved to the schema declared as Pet.
C26_Witness ==
    /\ phase = "resolved"
    /\ Len(schemas) = 2
    /\ schemas[1].k = NamePetV2
    /\ XmlNameOf(schemas[1].v) = NamePet
    /\ schemas[2].k = NamePet
    /\ ref = PointerTo(NamePet)
    /\ resolved = schemas[2].v
    /\ resolved # schemas[1].v

\* C8 as stated: with a key Pet-v2 and no key Pet, both pointers resolve to the
\* schema registered as Pet-v2.
C8_PetResolvesToPetV2 ==
    (phase = "resolved" /\ HasKey(schemas, NamePetV2) /\ ~HasKey(schemas, NamePet)) =>
        /\ ref = PointerTo(NamePetV2) => resolved = Lookup(schemas, NamePetV2)
        /\ ref = PointerTo(NamePet) => resolved = Lookup(schemas, NamePetV2)

\* No schema declared before Pet-v2 claims the name Pet.
PetUnclaimedBeforePetV2 ==
    \A i \in 1..(KeyIndex(schemas, NamePetV2) - 1) :
        /\ XmlNameOf(schemas[i].v) # NamePet
        /\ ~(IndexOf(schemas[i].k, "-") > 0 /\ HyphenBaseOf(schemas[i].k) = NamePet)

\* C8 amended: with a key Pet-v2 and no key Pet, the pointer to Pet-v2 resolves
\* to the schema registered as Pet-v2, and so does the pointer to Pet when no
\* schema declared before Pet-v2 claimed the name Pet.
C8_PetResolvesUnlessClaimed ==
    (phase = "resolved" /\ HasKey(schemas, NamePetV2) /\ ~HasKey(schemas, NamePet)) =>
        /\ ref = PointerTo(NamePetV2) => resolved = Lookup(schemas, NamePetV2)
        /\ (ref = PointerTo(NamePet) /\ PetUnclaimedBeforePetV2)
              => resolved = Lookup(schemas, NamePetV2)

\* C8 witness: Pet was resolved through the hyphen alias of Pet-v2, declared
\* second.
C8_Witness ==
    /\ phase = "resolved"
    /\ Len(schemas) = 2
    /\ schemas[2].k = NamePetV2
    /\ ~HasKey(schemas, NamePet)
    /\ ref = PointerTo(NamePet)
    /\ resolved = schemas[2].v

----------------------------------------------------------------------------
(* The materializer at work: a schema is written from its innermost node     *)
(* outwards, one nesting step at a time, a $ref step moving what was written *)
(* so far into components.schemas; then it is materialized as schemaToYaml   *)
(* does, with a resolver built from the table, an empty in-flight set and    *)
(* depth 0.                                                                  *)

MaxHops == 8
MaxRuns == 2

WrapKinds == {"items", "prop", "allOf", "oneOf", "anyOf"}

\* The component names the $ref steps use, in the order they are declared.
NameN(i) == <<"N", DigitSeq[i + 1]>>

PropKey == <<"p">>
KeyId == <<"i", "d">>
KeyTag == <<"t", "a", "g">>
KeyOne == <<"1">>

\* Innermost nodes without example sources or properties.
PlainLeaves ==
    { [type |-> "string"], [type |-> "integer"], [type |-> "array"], [type |-> "object"],
      [items |-> SchemaFalse], SchemaTrue, SchemaFalse,
      [ref |-> PointerTo(NameN(1))], [ref |-> PointerTo(NameN(2))] }

\* Innermost nodes with direct example sources: each of example and default set
\* or not, each of examples and enum missing, empty or filled.
NoKeyword == [k \in {} |-> TRUE]
ExampleLeaves ==
    { base @@ ex @@ exs @@ def @@ en :
        base \in { [type |-> "string"], [type |-> "array"] },
        ex \in { NoKeyword, [example |-> JStr(<<"e">>)] },
        exs \in { NoKeyword, [examples |-> <<>>], [examples |-> <<JNum(1), JNum(2)>>] },
        def \in { NoKeyword, [default |-> JBool(TRUE)] },
        en \in { NoKeyword, [enum |-> <<>>], [enum |-> <<JStr(<<"a">>), JStr(<<"b">>)>>] } }
    \ { [type |-> "string"], [type |-> "array"] }

PropSchema(k) ==
    IF k = KeyTag THEN [type |-> "string", enum |-> <<JStr(<<"a">>), JStr(<<"b">>)>>]
    ELSE IF k = KeyOne THEN [type |-> "integer"]
    ELSE [type |-> "string"]

\* The properties object JSON.parse builds from keys met in this order.
RECURSIVE PropertiesOf(_)
PropertiesOf(order) ==
    IF order = <<>> THEN <<>>
    ELSE ObjSet(PropertiesOf(SubSeq(order, 1, Len(order) - 1)),
                order[Len(order)], PropSchema(order[Len(order)]))

KeyOrders ==
    { o \in UNION { [1..n -> {KeyId, KeyTag, KeyOne}] : n \in 1..3 } :
        \A i, j \in DOMAIN o : i # j => o[i] # o[j] }

\* Innermost nodes that are objects with properties, some of them required.
ObjectLeaves ==
    { [type |-> "object", properties |-> PropertiesOf(o),
       required |-> SelectSeq(o, LAMBDA k : k \in req)] :
        o \in KeyOrders, req \in SUBSET {KeyId, KeyTag, KeyOne} }

\* The number of runs of equal steps in a sequence of nesting steps.
Runs(h) == IF h = <<>> THEN 0
           ELSE 1 + Cardinality({i \in 1..(Len(h) - 1) : h[i] # h[i + 1]})

CanNest(kind) ==
    /\ phase = "schema"
    /\ Len(hops) < MaxHops
    /\ Runs(<<kind>> \o hops) <= MaxRuns
    /\ (leaf \in PlainLeaves \/ kind = "items")

InitExample ==
    /\ LoaderIdle
    /\ schemas = <<>>
    /\ root \in PlainLeaves \cup ExampleLeaves \cup ObjectLeaves
    /\ leaf = root
    /\ hops = <<>>
    /\ out = Absent
    /\ phase = "schema"
    /\ ResolverIdle
    /\ AggregateIdle
    /\ YamlIdle

\* The schema written so far becomes the items, the one property, or the one
\* allOf / oneOf / anyOf branch of a new root.
Wrap(kind) ==
    /\ CanNest(kind)
    /\ root' = CASE kind = "items" -> [type |-> "array", items |-> root]
                 [] kind = "prop" ->
                        [type |-> "object", properties |-> <<[k |-> PropKey, v |-> root]>>]
                 [] kind = "allOf" -> [allOf |-> <<root>>]
                 [] kind = "oneOf" -> [oneOf |-> <<root>>]
                 [] kind = "anyOf" -> [anyOf |-> <<root>>]
    /\ hops' = <<kind>> \o hops
    /\ UNCHANGED <<lvars, avars, schemas, leaf, out, rvars, yvars, phase>>

\* The schema written so far is declared as the next component and the new
\* root is a $ref to it.
Define ==
    /\ CanNest("ref")
    /\ schemas' = ObjSet(schemas, NameN(Len(schemas) + 1), root)
    /\ root' = [ref |-> PointerTo(NameN(Len(schemas) + 1))]
    /\ hops' = <<"ref">> \o hops
    /\ UNCHANGED <<lvars, avars, leaf, out, rvars, yvars, phase>>

\* schemaToExample(schema, buildSchemaResolver(doc), new Set(), 0), line 1169.
Materialize ==
    /\ phase = "schema"
    /\ out' = schemaToExample(root, buildSchemaResolver(schemas), {}, 0)
    /\ phase' = "done"
    /\ UNCHANGED <<lvars, avars, schemas, root, hops, leaf, rvars, yvars>>

NextExample ==
    \/ \E kind \in WrapKinds : Wrap(kind)
    \/ Define
    \/ Materialize

SpecExample == InitExample /\ [][NextExample]_vars

----------------------------------------------------------------------------
(* Claims about the materializer, checked under SpecExample *)

RECURSIVE IsJsonValue(_)
IsJsonValue(v) ==
    /\ Has(v, "t")
    /\ CASE v.t \in {"str", "num", "bool"} -> Has(v, "v")
         [] v.t = "null" -> TRUE
         [] v.t = "arr" -> \A i \in 1..Len(v.v) : IsJsonValue(v.v[i])
         [] v.t = "obj" -> \A i \in 1..Len(v.v) : IsJsonValue(v.v[i].v)
         [] OTHER -> FALSE

IsRefNode(s) == ~IsBoolSchema(s) /\ Has(s, "ref")

DepthLimitValue == JStr(<<"<", "d", "e", "p", "t", "h", "-", "l", "i", "m", "i", "t", ">">>)

\* The innermost node points at a declared component: every component holds
\* that node, so the pointers form a cycle.
Cyclic == IsRefNode(leaf) /\ HasKey(schemas, RefName(leaf.ref))

\* The calls that met a $ref whose pointer was in flight.
InFlightCalls == {f \in out.log : IsRefNode(f.schema) /\ f.schema.ref \in f.seenIn}

\* C1 as stated: materializing returns a value, with the in-flight set empty
\* again, and every $ref met while its pointer is in flight becomes "<circular>".
C1_InFlightRefIsCircular ==
    phase = "done" =>
        /\ IsJsonValue(out.value)
        /\ out.seen = {}
        /\ \A f \in InFlightCalls : f.value = JStr(<<"<", "c", "i", "r", "c", "u", "l", "a", "r", ">">>)

\* C1 amended: materializing returns a value, with the in-flight set empty
\* again, and every $ref met at depth 6 or less while its pointer is in flight
\* becomes "<circular>"; at depth 7 the depth limit answers first.
C1_InFlightRefIsCircularUpToDepth6 ==
    phase = "done" =>
        /\ IsJsonValue(out.value)
        /\ out.seen = {}
        /\ \A f \in InFlightCalls :
              /\ f.depth <= 6 => f.value = JStr(<<"<", "c", "i", "r", "c", "u", "l", "a", "r", ">">>)
              /\ f.depth > 6 => f.value = DepthLimitValue

\* C1 witness: A references B and B references A, and the second visit of A
\* was answered by "<circular>" with both pointers in flight.
C1_Witness ==
    /\ phase = "done"
    /\ Cyclic
    /\ hops = <<"ref", "ref">>
    /\ \E f \in InFlightCalls :
          /\ f.seenIn = {PointerTo(NameN(1)), PointerTo(NameN(2))}
          /\ f.value = JStr(CircularSentinel)
    /\ out.value = JStr(CircularSentinel)

\* Innermost nodes the normal rules give a value of their own.
SimpleLeaves ==
    { [type |-> "string"], [type |-> "integer"], [type |-> "object"], [type |-> "array"],
      SchemaTrue, SchemaFalse,
      [ref |-> PointerTo(<<"N", "1">>)], [ref |-> PointerTo(<<"N", "2">>)] }

\* What the normal rules give for such a node at depth d; an array without
\* items has one element, the default string item, which lies at depth d + 1.
LeafValue(s, d) ==
    CASE s = [type |-> "string"] -> JStr(<<"s", "t", "r", "i", "n", "g">>)
      [] s = [type |-> "integer"] -> JNum(0)
      [] s = [type |-> "object"] -> JObj(<<>>)
      [] s = [type |-> "array"] ->
             JArr(<<IF d + 1 = 7 THEN DepthLimitValue ELSE JStr(<<"s", "t", "r", "i", "n", "g">>)>>)
      [] s = SchemaTrue -> JStr(<<"<", "a", "n", "y", ">">>)
      [] s = SchemaFalse -> JStr(<<"<", "n", "e", "v", "e", "r", ">">>)
      [] OTHER -> JStr(s.ref)

\* What the rules give for a chain of nesting steps h that starts at depth d and
\* ends in the node s.  A node at depth 7 is cut.  An array whose items is false
\* is empty, and a $ref to the schema false stays a pointer.  With
\* trueItemsUncut, an items that is true is the array's business even where it
\* lies at depth 7.
RECURSIVE ChainValue(_, _, _, _)
ChainValue(h, d, s, trueItemsUncut) ==
    IF d = 7 THEN DepthLimitValue
    ELSE IF h = <<>> THEN LeafValue(s, d)
    ELSE LET below == ChainValue(Tail(h), d + 1, s, trueItemsUncut)
             onBoolean == Tail(h) = <<>> /\ IsBoolSchema(s)
             nth == Cardinality({i \in 1..Len(h) : h[i] = "ref"})
         IN CASE h[1] = "items" ->
                    IF onBoolean /\ ~s.bool THEN JArr(<<>>)
                    ELSE IF onBoolean /\ (d + 1 < 7 \/ trueItemsUncut)
                    THEN JArr(<<JStr(<<"<", "a", "n", "y", ">">>)>>)
                    ELSE JArr(<<below>>)
              [] h[1] = "prop" -> JObj(<<[k |-> <<"p">>, v |-> below]>>)
              [] h[1] = "ref" ->
                    IF onBoolean /\ ~s.bool
                    THEN JStr(PointerTo(<<"N", DigitSeq[nth + 1]>>))
                    ELSE below
              [] OTHER -> below

\* C2 as stated: for an acyclic schema every node at depth 0 to 6 is
\* materialized by the normal rules and every node at depth 7 is replaced by
\* "<depth-limit>" whatever its content: no call is deeper than 7, a call at
\* depth 7 returns the sentinel, and the result is the chain's nesting built
\* around the innermost node's value, or around the sentinel at depth 7.
C2_DepthLimitAtSeven ==
    (phase = "done" /\ ~Cyclic) =>
        /\ \A f \in out.log :
              /\ f.depth \in 0..7
              /\ f.depth = 7 => f.value = DepthLimitValue
        /\ leaf \in SimpleLeaves => out.value = ChainValue(hops, 0, leaf, FALSE)

\* C2 amended: the same, except that an items schema that is true is never
\* visited: where it lies at depth 7, the array at depth 6 still materializes
\* to ["<any>"].
C2_DepthLimitAtSevenForVisitedNodes ==
    (phase = "done" /\ ~Cyclic) =>
        /\ \A f \in out.log :
              /\ f.depth \in 0..7
              /\ f.depth = 7 => f.value = DepthLimitValue
        /\ leaf \in SimpleLeaves => out.value = ChainValue(hops, 0, leaf, TRUE)

\* C2 witness: an acyclic chain of eight steps was materialized; its node at
\* depth 7, itself a nesting, came back as the sentinel.
C2_Witness ==
    /\ phase = "done"
    /\ ~Cyclic
    /\ Len(hops) = 8
    /\ leaf = [type |-> "integer"]
    /\ \E f \in out.log :
          /\ f.depth = 7
          /\ ~IsBoolSchema(f.schema)
          /\ f.value = JStr(DepthSentinel)
    /\ \E f \in out.log : f.depth = 6 /\ f.value # JStr(DepthSentinel)

\* No direct example source is set.
NoDirectSource(s) ==
    /\ ~Has(s, "example")
    /\ ~(Has(s, "examples") /\ Len(s.examples) > 0)
    /\ ~Has(s, "default")
    /\ ~(Has(s, "enum") /\ Len(s.enum) > 0)

\* The calls the array rule is about: made at depth 6 or less on a schema with
\* type "array" or with items, without $ref, without a direct example source and
\* without any keyword of an object or a composition.
ArrayCalls ==
    { f \in out.log :
        /\ f.depth <= 6
        /\ ~IsBoolSchema(f.schema)
        /\ ~Has(f.schema, "ref")
        /\ NoDirectSource(f.schema)
        /\ ~Has(f.schema, "properties") /\ ~Has(f.schema, "additionalProperties")
        /\ ~Has(f.schema, "allOf")
        /\ (Has(f.schema, "type") => f.schema.type = "array")
        /\ ((Has(f.schema, "type") /\ f.schema.type = "array") \/ Has(f.schema, "items")) }

\* C3: an array schema whose items is false materializes to the empty
\* sequence, and one with any other items to a sequence of one element,
\* wherever it occurs.
C3_ArrayLengthByItems ==
    phase = "done" =>
        \A f \in ArrayCalls :
            IF Has(f.schema, "items") /\ f.schema.items = SchemaFalse
            THEN f.value = JArr(<<>>)
            ELSE f.value.t = "arr" /\ Len(f.value.v) = 1

\* The calls the key order rule is about: made at depth 6 or less on a schema
\* with properties, without $ref, direct example source or allOf.
ObjectCalls ==
    { f \in out.log :
        /\ f.depth <= 6
        /\ ~IsBoolSchema(f.schema)
        /\ ~Has(f.schema, "ref")
        /\ NoDirectSource(f.schema)
        /\ ~Has(f.schema, "allOf")
        /\ Has(f.schema, "properties") }

\* Ascending name order on the property names in use.
NameBefore(a, b) ==
    LET order == <<<<"1">>, <<"i", "d">>, <<"p">>, <<"t", "a", "g">>>>
    IN PosIn(order, a) < PosIn(order, b)

RequiredOf(s) == IF Has(s, "required") THEN Range(s.required) ELSE {}

\* C4: the mapping materialized for an object schema has the schema's property
\* names as its keys, the required ones first in ascending name order, then the
\* others in ascending name order; and required [id] with properties id and tag
\* (enum [a, b]) gives id: "string", tag: "a" in this order.
C4_RequiredFirstByName ==
    phase = "done" =>
        /\ \A f \in ObjectCalls :
              LET keys == Keys(f.value.v)
                  req == RequiredOf(f.schema)
              IN /\ f.value.t = "obj"
                 /\ Len(keys) = Len(f.schema.properties)
                 /\ Range(keys) = Range(Keys(f.schema.properties))
                 /\ \A i, j \in 1..Len(keys) :
                       i < j => /\ (keys[j] \in req => keys[i] \in req)
                                /\ ((keys[i] \in req) = (keys[j] \in req)
                                       => NameBefore(keys[i], keys[j]))
        /\ (hops = <<>> /\ leaf \in ObjectLeaves
              /\ Keys(root.properties) = <<<<"i", "d">>, <<"t", "a", "g">>>>
              /\ root.required = <<<<"i", "d">>>>)
             => out.value = JObj(<<[k |-> <<"i", "d">>, v |-> JStr(<<"s", "t", "r", "i", "n", "g">>)],
                                   [k |-> <<"t", "a", "g">>, v |-> JStr(<<"a">>)]>>)

\* The calls the direct example rule is about: made on a schema that is no
\* boolean and has no $ref.
PlainCalls(maxDepth) ==
    { f \in out.log : f.depth <= maxDepth /\ ~IsBoolSchema(f.schema) /\ ~Has(f.schema, "ref") }

\* The value the priority order example, examples[0], default, enum[0] picks.
DirectSourceDecides(f) ==
    LET s == f.schema
        hasExample == Has(s, "example")
        hasExamples == Has(s, "examples") /\ Len(s.examples) > 0
        hasDefault == Has(s, "default")
        hasEnum == Has(s, "enum") /\ Len(s.enum) > 0
    IN /\ hasExample => f.value = s.example
       /\ (~hasExample /\ hasExamples) => f.value = s.examples[1]
       /\ (~hasExample /\ ~hasExamples /\ hasDefault) => f.value = s.default
       /\ (~hasExample /\ ~hasExamples /\ ~hasDefault /\ hasEnum) => f.value = s.enum[1]
       /\ (~hasExample /\ ~hasExamples /\ ~hasDefault /\ ~hasEnum /\ s \in ExampleLeaves) =>
             IF s.type = "string" THEN f.value = JStr(<<"s", "t", "r", "i", "n", "g">>)
             ELSE f.value.t = "arr"

\* C5 as stated: at every schema node that is no boolean and has no $ref, the
\* first present of example, examples[0], default, enum[0] is the value, and the
\* structural rules apply only when none is present.
C5_DirectSourceByPriority ==
    phase = "done" => \A f \in PlainCalls(7) : DirectSourceDecides(f)

\* C5 amended: the same at every such node reached at depth 6 or less; a node
\* reached at depth 7 is "<depth-limit>" whatever sources it has.
C5_DirectSourceByPriorityUpToDepth6 ==
    phase = "done" =>
        /\ \A f \in PlainCalls(6) : DirectSourceDecides(f)
        /\ \A f \in PlainCalls(7) :
              f.depth = 7 => f.value = DepthLimitValue

\* C5 witness: a node with examples, default and enum but no example was
\* reached at depth 2 and took the first of its examples.
C5_Witness ==
    /\ phase = "done"
    /\ hops = <<"items", "items">>
    /\ ~Has(leaf, "example")
    /\ Has(leaf, "examples") /\ Len(leaf.examples) > 0
    /\ Has(leaf, "default")
    /\ Has(leaf, "enum") /\ Len(leaf.enum) > 0
    /\ out.value = JArr(<<JArr(<<leaf.examples[1]>>)>>)

----------------------------------------------------------------------------
(* The emitter at work: a schema with example scalars is nested in arrays    *)
(* and properties and handed to schemaToYaml, as SchemaPanel does.           *)

MaxNest == 2

\* Example strings: safe words, numerals, a dash, keyword spellings, the empty
\* string, and strings with a space, a quote, a backslash, a line break, a colon.
StrPool ==
    { <<"a", "b", "c">>,
      <<"A", ".", "b", "/", "c", "=", "d", "-", "e", "_", "f">>,
      <<"1", "2", "3">>,
      <<"1", ".", "5">>,
      <<"-">>,
      <<"t", "r", "u", "e">>,
      <<"N", "o">>,
      <<"O", "F", "F">>,
      <<"~">>,
      <<>>,
      <<"a", " ", "b">>,
      <<"a", "\"", "b">>,
      <<"a", "\\", "b">>,
      <<"a", "\n", "b">>,
      <<"a", ":", "b">> }

KeyPool == { <<"i", "d">>, <<"1">>, <<"a", " ", "b">>, <<"Y", "e", "s">> }

YamlLeaves ==
    { [type |-> "string", example |-> JStr(str)] : str \in StrPool } \cup
    { [type |-> "integer", example |-> JNum(n)] : n \in {7, -12} } \cup
    { [type |-> "integer"], [type |-> "boolean"], [type |-> "string"],
      [type |-> "string", format |-> "date"], [type |-> "string", example |-> JNull],
      [type |-> "boolean", example |-> JBool(TRUE)],
      [type |-> "object"], [type |-> "array", items |-> SchemaFalse], SchemaTrue,
      [ref |-> PointerTo(NameN(1))] }

InitYaml ==
    /\ LoaderIdle
    /\ schemas = <<>>
    /\ root \in YamlLeaves \cup ObjectLeaves
    /\ leaf = root
    /\ hops = <<>>
    /\ out = Absent
    /\ ytext = <<>>
    /\ phase = "schema"
    /\ ResolverIdle
    /\ AggregateIdle

\* The schema written so far becomes the items of an array schema.
NestItems ==
    /\ phase = "schema"
    /\ Len(hops) < MaxNest
    /\ root' = [type |-> "array", items |-> root]
    /\ hops' = <<"items">> \o hops
    /\ UNCHANGED <<lvars, avars, schemas, leaf, out, rvars, yvars, phase>>

\* The schema written so far becomes the property key of an object schema.
NestProperty(key) ==
    /\ phase = "schema"
    /\ Len(hops) < MaxNest
    /\ root' = [type |-> "object", properties |-> <<[k |-> key, v |-> root]>>]
    /\ hops' = <<"prop">> \o hops
    /\ UNCHANGED <<lvars, avars, schemas, leaf, out, rvars, yvars, phase>>

\* SchemaPanel: schemaToYaml(schema, resolveRef).
Preview ==
    /\ phase = "schema"
    /\ out' = schemaToExample(root, buildSchemaResolver(schemas), {}, 0)
    /\ ytext' = schemaToYaml(root, buildSchemaResolver(schemas))
    /\ phase' = "yaml"
    /\ UNCHANGED <<lvars, avars, schemas, root, hops, leaf, rvars>>

NextYaml ==
    \/ NestItems
    \/ \E key \in KeyPool : NestProperty(key)
    \/ Preview

SpecYaml == InitYaml /\ [][NextYaml]_vars

----------------------------------------------------------------------------
(* Claims about the emitter, checked under SpecYaml *)

(* Reading YAML back, as YAML 1.2 defines it with the core schema, for block *)
(* sequences and mappings, the flow forms [] and {}, double-quoted scalars   *)
(* and plain scalars.  A mapping key is a node like any other.               *)

YamlError == [error |-> TRUE]

RECURSIVE SplitLines(_)
SplitLines(text) ==
    LET i == IndexOf(text, "\n")
    IN IF i < 0 THEN <<text>>
       ELSE <<SubSeq(text, 1, i)>> \o SplitLines(Drop(text, i + 1))

IndentOf(line) ==
    IF \A i \in 1..Len(line) : line[i] = " " THEN Len(line)
    ELSE (CHOOSE i \in 1..Len(line) : line[i] # " " /\ \A j \in 1..(i - 1) : line[j] = " ") - 1

AllDigits(x) == Len(x) >= 1 /\ \A i \in 1..Len(x) : x[i] \in Digits
Unsigned(x) == IF Len(x) >= 1 /\ x[1] \in {"-", "+"} THEN Tail(x) ELSE x

\* [-+]? [0-9]+
IsYamlInt(x) == AllDigits(Unsigned(x))

\* [-+]? ( \. [0-9]+ | [0-9]+ ( \. [0-9]* )? ) ( [eE] [-+]? [0-9]+ )?, not an int
IsYamlFloat(x) ==
    LET u == Unsigned(x)
        e == IF IndexOf(u, "e") >= 0 THEN IndexOf(u, "e") ELSE IndexOf(u, "E")
        mantissa == IF e >= 0 THEN SubSeq(u, 1, e) ELSE u
        dot == IndexOf(mantissa, ".")
        whole == IF dot >= 0 THEN SubSeq(mantissa, 1, dot) ELSE mantissa
        frac == IF dot >= 0 THEN Drop(mantissa, dot + 1) ELSE <<>>
    IN /\ ~IsYamlInt(x)
       /\ (e >= 0 => AllDigits(Unsigned(Drop(u, e + 1))))
       /\ (whole = <<>> \/ AllDigits(whole))
       /\ (frac = <<>> \/ AllDigits(frac))
       /\ (whole # <<>> \/ frac # <<>>)

\* The core schema's resolution of a plain scalar.
PlainResolve(x) ==
    IF x \in { <<>>, <<"~">>, <<"n", "u", "l", "l">>, <<"N", "u", "l", "l">>,
               <<"N", "U", "L", "L">> }
    THEN JNull
    ELSE IF x \in { <<"t", "r", "u", "e">>, <<"T", "r", "u", "e">>, <<"T", "R", "U", "E">> }
    THEN JBool(TRUE)
    ELSE IF x \in { <<"f", "a", "l", "s", "e">>, <<"F", "a", "l", "s", "e">>,
                    <<"F", "A", "L", "S", "E">> }
    THEN JBool(FALSE)
    ELSE IF IsYamlInt(x)
    THEN JNum(IF x[1] = "-" THEN 0 - NatOf(Tail(x)) ELSE NatOf(Unsigned(x)))
    ELSE IF IsYamlFloat(x) THEN [t |-> "float", v |-> x]
    ELSE JStr(x)

\* The position of the quote that closes a double-quoted scalar; 0 if none.
RECURSIVE ClosingQuote(_, _)
ClosingQuote(x, i) ==
    IF i > Len(x) THEN 0
    ELSE IF x[i] = "\\" THEN ClosingQuote(x, i + 2)
    ELSE IF x[i] = "\"" THEN i
    ELSE ClosingQuote(x, i + 1)

RECURSIVE Unescape(_)
Unescape(x) ==
    IF x = <<>> THEN <<>>
    ELSE IF x[1] = "\\" /\ Len(x) >= 2
    THEN <<CASE x[2] = "n" -> "\n" [] x[2] = "r" -> "\r" [] x[2] = "t" -> "\t"
             [] OTHER -> x[2]>> \o Unescape(Drop(x, 2))
    ELSE <<x[1]>> \o Unescape(Tail(x))

\* A node written on one line.
YamlInline(x) ==
    IF x = <<"[", "]">> THEN JArr(<<>>)
    ELSE IF x = <<"{", "}">> THEN JObj(<<>>)
    ELSE IF Len(x) >= 1 /\ x[1] = "\""
    THEN (IF ClosingQuote(x, 2) = Len(x) THEN JStr(Unescape(SubSeq(x, 2, Len(x) - 1)))
          ELSE YamlError)
    ELSE PlainResolve(x)

\* "-" followed by a space or by the end of the line starts a sequence entry.
IsSeqEntry(x) == Len(x) >= 1 /\ x[1] = "-" /\ (Len(x) = 1 \/ x[2] = " ")

\* The position of the ":" that ends a mapping key on this line; 0 if none.
KeyColon(x) ==
    IF Len(x) >= 1 /\ x[1] = "\""
    THEN LET q == ClosingQuote(x, 2)
         IN IF q > 0 /\ q < Len(x) /\ x[q + 1] = ":" /\ (q + 1 = Len(x) \/ x[q + 2] = " ")
            THEN q + 1 ELSE 0
    ELSE LET cs == {i \in 1..Len(x) : x[i] = ":" /\ (i = Len(x) \/ x[i + 1] = " ")}
         IN IF cs = {} THEN 0 ELSE CHOOSE i \in cs : \A j \in cs : i <= j

\* The block node that these lines are; the first line gives the indentation.
RECURSIVE YamlBlock(_)
YamlBlock(lines) ==
    LET n == IndentOf(lines[1])
        text(i) == Drop(lines[i], n)
        starts == {i \in 1..Len(lines) : IndentOf(lines[i]) = n}
        start(k) == CHOOSE i \in starts : Cardinality({j \in starts : j < i}) = k - 1
        below(i) == SubSeq(lines, i + 1,
                           IF \E j \in starts : j > i
                           THEN (CHOOSE j \in starts : j > i /\ \A l \in starts : l > i => j <= l) - 1
                           ELSE Len(lines))
        seqEntry(i) ==
            IF text(i) = <<"-">>
            THEN (IF below(i) = <<>> THEN JNull ELSE YamlBlock(below(i)))
            ELSE YamlBlock(<<Pad(n + 2) \o Drop(text(i), 2)>> \o below(i))
        mapEntry(i) ==
            LET c == KeyColon(text(i))
                rest == Drop(text(i), c + 1)
            IN [k |-> YamlInline(SubSeq(text(i), 1, c - 1)),
                v |-> IF c = Len(text(i))
                      THEN (IF below(i) = <<>> THEN JNull ELSE YamlBlock(below(i)))
                      ELSE IF below(i) # <<>> \/ IsSeqEntry(rest) THEN YamlError
                      ELSE YamlInline(rest)]
    IN IF IsSeqEntry(text(1))
       THEN IF \A i \in starts : IsSeqEntry(text(i))
            THEN JArr([k \in 1..Cardinality(starts) |-> seqEntry(start(k))])
            ELSE YamlError
       ELSE IF KeyColon(text(1)) > 0
       THEN IF \A i \in starts : KeyColon(text(i)) > 0
            THEN JObj([k \in 1..Cardinality(starts) |-> mapEntry(start(k))])
            ELSE YamlError
       ELSE IF Len(lines) = 1 THEN YamlInline(text(1))
       ELSE YamlError

YamlLoad(text) == YamlBlock(SplitLines(text))

\* A materialized value as the YAML node it should read back as: a mapping's
\* keys are strings.
RECURSIVE AsYamlNode(_)
AsYamlNode(v) ==
    CASE v.t = "arr" -> JArr([i \in 1..Len(v.v) |-> AsYamlNode(v.v[i])])
      [] v.t = "obj" -> JObj([i \in 1..Len(v.v) |->
                                 [k |-> JStr(v.v[i].k), v |-> AsYamlNode(v.v[i].v)]])
      [] OTHER -> v

\* C9: the YAML text of a materialized value reads back as that value: strings
\* stay strings (digits, dots and dashes included), numbers, booleans and null
\* keep their type, mappings and sequences keep their keys, order and nesting.
C9_YamlRoundTrip ==
    phase = "yaml" => YamlLoad(ytext) = AsYamlNode(out.value)

\* The claim's bareword test.
ClaimBare(x) ==
    /\ x # <<>>
    /\ \A i \in 1..Len(x) :
          x[i] \in LowerLetters \cup UpperLetters \cup Digits \cup {".", "_", "/", "=", "-"}
    /\ [i \in 1..Len(x) |-> LowerChar(x[i])] \notin
          { <<"t", "r", "u", "e">>, <<"f", "a", "l", "s", "e">>, <<"n", "u", "l", "l">>,
            <<"~">>, <<"y", "e", "s">>, <<"n", "o">>, <<"o", "n">>, <<"o", "f", "f">> }

\* w is x written bare if x passes the test, and x as a JSON string otherwise.
IsWritten(w, x) ==
    IF ClaimBare(x) THEN w = x
    ELSE /\ Len(w) >= 2
         /\ w[1] = "\"" /\ w[Len(w)] = "\""
         /\ ClosingQuote(w, 2) = Len(w)
         /\ Unescape(SubSeq(w, 2, Len(w) - 1)) = x

\* line is "key: value" with both written by the rule.
IsWrittenEntry(line, key, x) ==
    \E i \in 1..(Len(line) - 1) :
        /\ line[i] = ":" /\ line[i + 1] = " "
        /\ IsWritten(SubSeq(line, 1, i - 1), key)
        /\ IsWritten(Drop(line, i + 1), x)

\* C10: a string scalar, and a mapping key, is written bare iff it is
\* non-empty, made of letters, digits and . _ / = - only, and in lower case none
\* of true, false, null, ~, yes, no, on, off; otherwise it is written as a JSON
\* string.  Checked on a string alone, in a sequence, under a key, and under a
\* key in a sequence.
C10_BareIffSafeAndNoKeyword ==
    (phase = "yaml" /\ leaf \in YamlLeaves) =>
        LET lines == SplitLines(ytext)
            last == lines[Len(lines)]
            bottom == Drop(last, IndentOf(last))
            v == out.value
        IN /\ (hops = <<>> /\ v.t = "str") => IsWritten(ytext, v.v)
           /\ (hops = <<"items">> /\ v.v[1].t = "str") =>
                 /\ SubSeq(ytext, 1, 2) = <<"-", " ">>
                 /\ IsWritten(Drop(ytext, 2), v.v[1].v)
           /\ (hops = <<"prop">> /\ v.v[1].v.t = "str") =>
                 IsWrittenEntry(ytext, v.v[1].k, v.v[1].v.v)
           /\ (hops = <<"items", "prop">> /\ v.v[1].v[1].v.t = "str") =>
                 /\ lines[1] = <<"-">>
                 /\ IsWrittenEntry(bottom, v.v[1].v[1].k, v.v[1].v[1].v.v)
           /\ (hops = <<"prop", "prop">> /\ v.v[1].v.v[1].v.t = "str") =>
                 /\ lines[1][Len(lines[1])] = ":"
                 /\ IsWritten(SubSeq(lines[1], 1, Len(lines[1]) - 1), v.v[1].k)
                 /\ IsWrittenEntry(bottom, v.v[1].v.v[1].k, v.v[1].v.v[1].v.v)

\* C10 witness: under the key Yes, which is quoted, the word A.b/c=d-e_f is
\* written bare.
C10_Witness ==
    /\ phase = "yaml"
    /\ hops = <<"prop">>
    /\ ytext = <<"\"", "Y", "e", "s", "\"", ":", " ",
                 "A", ".", "b", "/", "c", "=", "d", "-", "e", "_", "f">>

----------------------------------------------------------------------------
(* Operation aggregator *)

METHOD_ORDER == <<<<"G", "E", "T">>, <<"P", "O", "S", "T">>, <<"P", "U", "T">>, <<"P", "A", "T", "C", "H">>, <<"D", "E", "L", "E", "T", "E">>>>

toUpperCase(s) == [i \in 1..Len(s) |-> UpperChar(s[i])]

\* toHttpMethod; <<>> stands for null.
toHttpMethod(value) ==
    IF PosIn(METHOD_ORDER, toUpperCase(value)) > 0 THEN toUpperCase(value) ELSE <<>>

\* The least index of a non-empty set of indices: what Array.prototype.find
\* stops at.
FirstIndex(hits) == CHOOSE i \in hits : \A j \in hits : i <= j

ApplicationJson == <<"a", "p", "p", "l", "i", "c", "a", "t", "i", "o", "n", "/", "j", "s", "o", "n">>

\* entry?.schema
EntrySchema(entry) == IF Has(entry, "schema") THEN entry.schema ELSE Absent

\* owner?.content; a missing content and an empty one both lead
\* pickContentSchema to undefined, and both are <<>> here.
ContentOf(owner) == IF Has(owner, "content") THEN owner.content ELSE <<>>

pickContentSchema(content) ==
    IF HasKey(content, ApplicationJson)
         /\ Truthy(EntrySchema(Lookup(content, ApplicationJson)))
    THEN EntrySchema(Lookup(content, ApplicationJson))
    ELSE LET hits == {i \in 1..Len(content) : Truthy(EntrySchema(content[i].v))}
         IN IF hits = {} THEN Absent ELSE EntrySchema(content[FirstIndex(hits)].v)

\* requestBody is a record; one without content stands for a missing body too.
pickRequestSchema(requestBody) == pickContentSchema(ContentOf(requestBody))

PreferredStatuses == <<<<"2", "0", "0">>, <<"2", "0", "1">>, <<"2", "0", "2">>, <<"2", "0", "4">>>>
DefaultStatus == <<"d", "e", "f", "a", "u", "l", "t">>

\* /^2\d\d$/.test(status)
IsTwoXX(status) ==
    Len(status) = 3 /\ status[1] = "2" /\ status[2] \in Digits /\ status[3] \in Digits

\* The status pickResponseSchema settles on; <<>> stands for undefined.
PreferredStatus(responses) ==
    LET keys == Keys(responses)
        fixed == {i \in 1..Len(PreferredStatuses) : HasKey(responses, PreferredStatuses[i])}
        twoXX == {i \in 1..Len(keys) : IsTwoXX(keys[i])}
    IN IF fixed # {} THEN PreferredStatuses[FirstIndex(fixed)]
       ELSE IF twoXX # {} THEN keys[FirstIndex(twoXX)]
       ELSE IF HasKey(responses, DefaultStatus) THEN DefaultStatus
       ELSE IF keys # <<>> THEN keys[1]
       ELSE <<>>

\* responses is the object's entries; a missing responses object is <<>>.
pickResponseSchema(responses) ==
    IF PreferredStatus(responses) = <<>> THEN Absent
    ELSE pickContentSchema(ContentOf(Lookup(responses, PreferredStatus(responses))))

\* !param?.name || !param.in
ParamSkipped(param) ==
    \/ ~Has(param, "name") \/ param.name = <<>>
    \/ ~Has(param, "in") \/ param.in = <<>>

\* `${param.in}:${param.name}`
ParamKey(param) == param.in \o <<":">> \o param.name

\* Map.prototype.set: a key already there keeps its place, a new one goes last.
MapPut(entries, k, v) ==
    IF HasKey(entries, k)
    THEN [i \in 1..Len(entries) |-> IF entries[i].k = k THEN [k |-> k, v |-> v] ELSE entries[i]]
    ELSE Append(entries, [k |-> k, v |-> v])

\* One of the two for loops of mergeParameters.
RECURSIVE MergeInto(_, _)
MergeInto(merged, params) ==
    IF params = <<>> THEN merged
    ELSE MergeInto(IF ParamSkipped(params[1]) THEN merged
                   ELSE MapPut(merged, ParamKey(params[1]), params[1]),
                   Tail(params))

\* mergeParameters with the path-level list written last, so that it overrides.
mergeParameters_BaseWins(baseParams, opParams) ==
    LET merged == MergeInto(MergeInto(<<>>, opParams), baseParams)
    IN [i \in 1..Len(merged) |-> merged[i].v]

mergeParameters(baseParams, opParams) ==
    LET merged == MergeInto(MergeInto(<<>>, baseParams), opParams)
    IN [i \in 1..Len(merged) |-> merged[i].v]

\* { ...baseSchema }: a new object with the same entries; fresh tells that a
\* write to it does not reach baseSchema.
Spread_SameObject(obj) == [fresh |-> FALSE, value |-> obj]
Spread(obj) == [fresh |-> TRUE, value |-> obj]

\* Lines 866-878: the schema filed for a parameter, and whether it is an object
\* of its own or the parameter's schema object itself.
ParamSchema(param) ==
    LET baseSchema == IF Has(param, "schema") THEN param.schema ELSE [type |-> "string"]
        copy == Spread(baseSchema)
        described == IF /\ Has(param, "description") /\ param.description # <<>>
                        /\ ~(Has(copy.value, "description") /\ copy.value.description # <<>>)
                     THEN ("description" :> param.description) @@ copy.value
                     ELSE copy.value
        exampled == IF Has(param, "example") /\ ~Has(described, "example")
                    THEN ("example" :> param.example) @@ described
                    ELSE described
    IN IF IsBoolSchema(baseSchema)
       THEN [fresh |-> TRUE, value |-> baseSchema]
       ELSE [fresh |-> copy.fresh \/ ~Has(param, "schema"), value |-> exampled]

\* typeof param.in === "string" ? param.in : "query"
LocationOf(param) == IF Has(param, "in") THEN param.in ELSE <<"q", "u", "e", "r", "y">>

EmptyGroup == [properties |-> <<>>, required |-> <<>>]

\* The loop of lines 860-884 over params, from the groups built so far.
RECURSIVE GroupParams(_, _)
GroupParams(groups, params) ==
    IF params = <<>> THEN groups
    ELSE LET param == params[1]
             location == LocationOf(param)
             group == IF HasKey(groups, location) THEN Lookup(groups, location)
                      ELSE EmptyGroup
             filed == [properties |-> ObjSet(group.properties, param.name,
                                             ParamSchema(param).value),
                       required |-> IF Has(param, "required") /\ param.required
                                    THEN Append(group.required, param.name)
                                    ELSE group.required]
         IN IF ~Has(param, "name") \/ param.name = <<>>
            THEN GroupParams(groups, Tail(params))
            ELSE GroupParams(ObjSet(groups, location, filed), Tail(params))

\* Lines 893-897 and 902-906; required: undefined is a missing required.
GroupSchema(group) ==
    IF group.required = <<>>
    THEN [type |-> "object", properties |-> group.properties]
    ELSE [type |-> "object", properties |-> group.properties, required |-> group.required]

RECURSIVE LocationProperties(_, _)
LocationProperties(properties, groupEntries) ==
    IF groupEntries = <<>> THEN properties
    ELSE LocationProperties(ObjSet(properties, groupEntries[1].k,
                                   GroupSchema(groupEntries[1].v)),
                            Tail(groupEntries))

\* Array.prototype.filter
RECURSIVE NonEmptyGroups(_)
NonEmptyGroups(groups) ==
    IF groups = <<>> THEN <<>>
    ELSE IF groups[1].v.properties # <<>>
    THEN <<groups[1]>> \o NonEmptyGroups(Tail(groups))
    ELSE NonEmptyGroups(Tail(groups))

\* buildParamsSchema with the lone group wrapped like any other.
buildParamsSchema_AlwaysKeyed(params) ==
    LET groupEntries == NonEmptyGroups(GroupParams(<<>>, params))
    IN IF groupEntries = <<>> THEN Absent
       ELSE [type |-> "object", properties |-> LocationProperties(<<>>, groupEntries)]

buildParamsSchema(params) ==
    LET groupEntries == NonEmptyGroups(GroupParams(<<>>, params))
    IN IF params = <<>> THEN Absent
       ELSE IF groupEntries = <<>> THEN Absent
       ELSE IF Len(groupEntries) = 1 THEN GroupSchema(groupEntries[1].v)
       ELSE [type |-> "object", properties |-> LocationProperties(<<>>, groupEntries)]

ParamsKey == <<"p", "a", "r", "a", "m", "s">>
BodyKey == <<"b", "o", "d", "y">>

mergeRequestSchema(bodySchema, paramsSchema) ==
    IF Truthy(bodySchema) /\ Truthy(paramsSchema)
    THEN [type |-> "object",
          properties |-> <<[k |-> ParamsKey, v |-> paramsSchema],
                           [k |-> BodyKey, v |-> bodySchema]>>]
    ELSE IF bodySchema # Absent THEN bodySchema ELSE paramsSchema

WhiteSpace == {" ", "\t", "\n", "\r"}

\* String.prototype.trim
RECURSIVE TrimStart(_)
TrimStart(s) == IF s # <<>> /\ s[1] \in WhiteSpace THEN TrimStart(Tail(s)) ELSE s
RECURSIVE TrimEnd(_)
TrimEnd(s) ==
    IF s # <<>> /\ s[Len(s)] \in WhiteSpace THEN TrimEnd(SubSeq(s, 1, Len(s) - 1)) ELSE s
Trim(s) == TrimEnd(TrimStart(s))

\* Array.prototype.sort is a stable sort: x goes behind the sorted elements
\* that do not compare greater than it.
InsertBehind(sorted, x, notGreater) ==
    SubSeq(sorted, 1, Cardinality(notGreater)) \o <<x>> \o Drop(sorted, Cardinality(notGreater))

\* A value of a path item that is an operation object (line 1192); a JSON
\* scalar there is a record [t, v].
IsOperationObject(operation) == ~Has(operation, "t")

\* A reading of line 1195 that keeps the first tag only.
TagsOf_FirstOnly(op) ==
    IF Has(op, "tags") /\ op.tags # <<>> THEN <<op.tags[1]>> ELSE <<<<"d", "e", "f", "a", "u", "l", "t">>>>

\* Lines 1195-1204: what is pushed for one operation.
TagsOf(op) == IF Has(op, "tags") /\ op.tags # <<>> THEN op.tags ELSE <<<<"d", "e", "f", "a", "u", "l", "t">>>>
ParametersOf(owner) == IF Has(owner, "parameters") THEN owner.parameters ELSE <<>>
RequestBodyOf(op) == IF Has(op, "requestBody") THEN op.requestBody ELSE [none |-> TRUE]
ResponsesOf(op) == IF Has(op, "responses") THEN op.responses ELSE <<>>

OperationIdOf(op, httpMethod, pathKey) ==
    IF Has(op, "operationId") /\ Trim(op.operationId) # <<>>
    THEN op.operationId
    ELSE httpMethod \o <<" ">> \o pathKey

ApiMethodOf(op, httpMethod, pathKey, sharedParams) ==
    [method |-> httpMethod,
     operationId |-> OperationIdOf(op, httpMethod, pathKey),
     request |-> mergeRequestSchema(
                     pickRequestSchema(RequestBodyOf(op)),
                     buildParamsSchema(mergeParameters(sharedParams, ParametersOf(op)))),
     response |-> pickResponseSchema(ResponsesOf(op))]

\* Lines 1207-1225: one pass of the loop over an operation's tags.
FileUnder(serviceMap, serviceName, pathKey, apiMethod) ==
    LET service == IF HasKey(serviceMap, serviceName) THEN Lookup(serviceMap, serviceName)
                   ELSE [name |-> serviceName, endpoints |-> <<>>]
        endpoint == IF HasKey(service.endpoints, pathKey)
                    THEN Lookup(service.endpoints, pathKey)
                    ELSE [path |-> pathKey, methods |-> <<>>]
        pushed == [path |-> pathKey, methods |-> Append(endpoint.methods, apiMethod)]
    IN MapPut(serviceMap, serviceName,
              [name |-> serviceName,
               endpoints |-> MapPut(service.endpoints, pathKey, pushed)])

RECURSIVE FileTags(_, _, _, _)
FileTags(serviceMap, tags, pathKey, apiMethod) ==
    IF tags = <<>> THEN serviceMap
    ELSE FileTags(FileUnder(serviceMap, tags[1], pathKey, apiMethod),
                  Tail(tags), pathKey, apiMethod)

\* The loop of line 1189 over the entries of one path item.
RECURSIVE FileOperations(_, _, _, _)
FileOperations(serviceMap, entries, pathKey, sharedParams) ==
    IF entries = <<>> THEN serviceMap
    ELSE LET httpMethod == toHttpMethod(entries[1].k)
             op == entries[1].v
         IN IF httpMethod = <<>> \/ ~IsOperationObject(op)
            THEN FileOperations(serviceMap, Tail(entries), pathKey, sharedParams)
            ELSE FileOperations(
                     FileTags(serviceMap, TagsOf(op), pathKey,
                              ApiMethodOf(op, httpMethod, pathKey, sharedParams)),
                     Tail(entries), pathKey, sharedParams)

\* The loop of line 1185 over doc.paths.
RECURSIVE FilePaths(_, _)
FilePaths(serviceMap, paths) ==
    IF paths = <<>> THEN serviceMap
    ELSE FilePaths(FileOperations(serviceMap, paths[1].v.entries, paths[1].k,
                                  ParametersOf(paths[1].v)),
                   Tail(paths))

\* tagOrder.get(name): the index forEach last set for the name; -1 stands for
\* undefined.  A tag without a name, or with the name "", sets nothing.
TagOrderGet(tags, name) ==
    LET hits == {i \in 1..Len(tags) : Has(tags[i], "name") /\ tags[i].name # <<>>
                                        /\ tags[i].name = name}
    IN IF hits = {} THEN -1 ELSE (CHOOSE i \in hits : \A j \in hits : j <= i) - 1

\* A reading of lines 1242-1249 that compares the names only.
CompareServices_ByName(a, b, tags) == localeCompare(a.name, b.name)

\* The comparator of lines 1242-1249, by its sign.
CompareServices(a, b, tags) ==
    LET aOrder == TagOrderGet(tags, a.name)
        bOrder == TagOrderGet(tags, b.name)
    IN IF aOrder # -1 /\ bOrder # -1 THEN aOrder - bOrder
       ELSE IF aOrder # -1 THEN -1
       ELSE IF bOrder # -1 THEN 1
       ELSE localeCompare(a.name, b.name)

\* The comparators of lines 1236 and 1239.
CompareMethods(a, b) == PosIn(METHOD_ORDER, a.method) - PosIn(METHOD_ORDER, b.method)
ComparePaths(a, b) == localeCompare(a.path, b.path)

\* A reading of line 1235 that leaves the methods as they were pushed.
SortMethods_AsPushed(methods) == methods

\* endpoint.methods.sort(...), line 1235
RECURSIVE SortMethods(_)
SortMethods(methods) ==
    IF methods = <<>> THEN <<>>
    ELSE LET sorted == SortMethods(SubSeq(methods, 1, Len(methods) - 1))
             x == methods[Len(methods)]
         IN InsertBehind(sorted, x,
                         {i \in 1..Len(sorted) : CompareMethods(sorted[i], x) <= 0})

\* .sort((a, b) => a.path.localeCompare(b.path)), line 1239
RECURSIVE SortEndpoints(_)
SortEndpoints(endpoints) ==
    IF endpoints = <<>> THEN <<>>
    ELSE LET sorted == SortEndpoints(SubSeq(endpoints, 1, Len(endpoints) - 1))
             x == endpoints[Len(endpoints)]
         IN InsertBehind(sorted, x,
                         {i \in 1..Len(sorted) : ComparePaths(sorted[i], x) <= 0})

\* services.sort(...), line 1242
RECURSIVE SortServices(_, _)
SortServices(list, tags) ==
    IF list = <<>> THEN <<>>
    ELSE LET sorted == SortServices(SubSeq(list, 1, Len(list) - 1), tags)
             x == list[Len(list)]
         IN InsertBehind(sorted, x,
                         {i \in 1..Len(sorted) : CompareServices(sorted[i], x, tags) <= 0})

\* Lines 1232-1239: the endpoints as the Map lists them, each one's methods
\* sorted, and then sorted themselves.
SortedEndpoints(endpoints) ==
    SortEndpoints([j \in 1..Len(endpoints) |->
                      [path |-> endpoints[j].v.path,
                       methods |-> SortMethods(endpoints[j].v.methods)]])

DeclaredTags(doc) == IF Has(doc, "tags") THEN doc.tags ELSE <<>>

openApiToMicroservices(doc) ==
    IF ~Has(doc, "paths") THEN <<>>
    ELSE LET serviceMap == FilePaths(<<>>, doc.paths)
         IN SortServices([i \in 1..Len(serviceMap) |->
                             [name |-> serviceMap[i].v.name,
                              endpoints |-> SortedEndpoints(serviceMap[i].v.endpoints)]],
                         DeclaredTags(doc))

\* JSON.parse of an object: its members are defined on a new object in text
\* order, so integer-like keys move to the front and a repeated key keeps its
\* first place with its last value.
ParseObject(members) == ObjAssign(<<>>, members)

ParseContentOwner(owner) ==
    [f \in DOMAIN owner |-> IF f = "content" THEN ParseObject(owner[f]) ELSE owner[f]]

ParseOperation(op) ==
    IF ~IsOperationObject(op) THEN op
    ELSE [f \in DOMAIN op |->
             IF f = "responses"
             THEN ParseObject([i \in 1..Len(op[f]) |->
                                  [k |-> op[f][i].k, v |-> ParseContentOwner(op[f][i].v)]])
             ELSE IF f = "requestBody" THEN ParseContentOwner(op[f])
             ELSE op[f]]

ParsePathItem(item) ==
    [f \in DOMAIN item |->
        IF f = "entries"
        THEN ParseObject([i \in 1..Len(item[f]) |->
                             [k |-> item[f][i].k, v |-> ParseOperation(item[f][i].v)]])
        ELSE item[f]]

\* response.json() of line 1375 on the document text.
JsonParse(text) ==
    [f \in DOMAIN text |->
        IF f = "paths"
        THEN ParseObject([i \in 1..Len(text[f]) |->
                             [k |-> text[f][i].k, v |-> ParsePathItem(text[f][i].v)]])
        ELSE text[f]]

\* The parameter object after the loop body of lines 860-884 has run on it.
ParamAfter(param) ==
    IF ParamSchema(param).fresh THEN param
    ELSE [param EXCEPT !.schema = ParamSchema(param).value]

ParamsAfter(params) == [i \in 1..Len(params) |-> ParamAfter(params[i])]

\* The parameter lists of an operation and of its path item after
\* buildParamsSchema has run on their merge: only merged parameters are visited.
VisitedAfter(params, merged) ==
    [i \in 1..Len(params) |->
        IF \E j \in 1..Len(merged) : merged[j] = params[i]
        THEN ParamAfter(params[i]) ELSE params[i]]

OperationAfter(op, sharedParams) ==
    IF ~IsOperationObject(op) \/ ~Has(op, "parameters") THEN op
    ELSE [op EXCEPT !.parameters =
             VisitedAfter(op.parameters, mergeParameters(sharedParams, op.parameters))]

\* The shared parameters after every operation of the path item was filed.
RECURSIVE SharedAfter(_, _)
SharedAfter(sharedParams, entries) ==
    IF entries = <<>> THEN sharedParams
    ELSE IF toHttpMethod(entries[1].k) = <<>> \/ ~IsOperationObject(entries[1].v)
    THEN SharedAfter(sharedParams, Tail(entries))
    ELSE SharedAfter(VisitedAfter(sharedParams,
                                  mergeParameters(sharedParams,
                                                  ParametersOf(entries[1].v))),
                     Tail(entries))

PathItemAfter(item) ==
    [f \in DOMAIN item |->
        IF f = "entries"
        THEN [i \in 1..Len(item.entries) |->
                 [k |-> item.entries[i].k,
                  v |-> IF toHttpMethod(item.entries[i].k) = <<>> THEN item.entries[i].v
                        ELSE OperationAfter(item.entries[i].v, ParametersOf(item))]]
        ELSE IF f = "parameters" THEN SharedAfter(item.parameters, item.entries)
        ELSE item[f]]

\* Line 1197: allParams of every operation filed, in the order of filing.
RECURSIVE MergedOfEntries(_, _, _)
MergedOfEntries(entries, pathKey, sharedParams) ==
    IF entries = <<>> THEN <<>>
    ELSE (IF toHttpMethod(entries[1].k) = <<>> \/ ~IsOperationObject(entries[1].v)
          THEN <<>>
          ELSE <<[path |-> pathKey, key |-> entries[1].k,
                  merged |-> mergeParameters(sharedParams, ParametersOf(entries[1].v))]>>)
         \o MergedOfEntries(Tail(entries), pathKey, sharedParams)

RECURSIVE MergedOfPaths(_)
MergedOfPaths(paths) ==
    IF paths = <<>> THEN <<>>
    ELSE MergedOfEntries(paths[1].v.entries, paths[1].k, ParametersOf(paths[1].v))
         \o MergedOfPaths(Tail(paths))

AllParamsOf(doc) == IF ~Has(doc, "paths") THEN <<>> ELSE MergedOfPaths(doc.paths)

\* The document object as openApiToMicroservices leaves it.
DocumentAfter(doc) ==
    [f \in DOMAIN doc |->
        IF f = "paths"
        THEN [i \in 1..Len(doc[f]) |->
                 [k |-> doc[f][i].k, v |-> PathItemAfter(doc[f][i].v)]]
        ELSE doc[f]]

----------------------------------------------------------------------------
(* The aggregator at work on one operation: GET /pets is given path-level   *)
(* and operation-level parameters and a request body, the document is       *)
(* aggregated, and the request schema is previewed.                         *)

MaxParams == 3
MaxListed == 2

PetsPath == <<"/", "p", "e", "t", "s">>

ParamPool ==
    { [name |-> <<"i", "d">>, in |-> <<"p", "a", "t", "h">>, required |-> TRUE, schema |-> [type |-> "integer"]],
      [name |-> <<"i", "d">>, in |-> <<"q", "u", "e", "r", "y">>, schema |-> [type |-> "string"],
       description |-> <<"d">>],
      [name |-> <<"i", "d">>, in |-> <<"p", "a", "t", "h">>,
       schema |-> [type |-> "string", description |-> <<"o", "w", "n">>],
       description |-> <<"d">>, example |-> JStr(<<"x">>)],
      [name |-> <<"q">>, in |-> <<"q", "u", "e", "r", "y">>, required |-> TRUE],
      [name |-> <<"q">>, in |-> <<"h", "e", "a", "d", "e", "r">>, required |-> FALSE, schema |-> SchemaTrue,
       description |-> <<"d">>],
      [name |-> <<"q">>, in |-> <<"q", "u", "e", "r", "y">>, schema |-> [ref |-> PointerTo(NameN(1))],
       example |-> JNum(7)],
      [name |-> <<"q">>],
      [in |-> <<"q", "u", "e", "r", "y">>, required |-> TRUE] }

IdObject ==
    [type |-> "object", properties |-> <<[k |-> <<"i", "d">>, v |-> [type |-> "integer"]]>>]

BodyPool ==
    { [content |-> <<[k |-> ApplicationJson, v |-> [schema |-> IdObject]]>>],
      [content |-> <<[k |-> ApplicationJson, v |-> [schema |-> SchemaFalse]]>>],
      [content |-> <<[k |-> ApplicationJson, v |-> [schema |-> SchemaTrue]]>>],
      [content |-> <<[k |-> <<"a", "p", "p", "l", "i", "c", "a", "t", "i", "o", "n", "/", "x", "m", "l">>, v |-> [schema |-> [type |-> "string"]]],
                     [k |-> ApplicationJson, v |-> [schema |-> [type |-> "integer"]]]>>],
      [content |-> <<[k |-> <<"a", "p", "p", "l", "i", "c", "a", "t", "i", "o", "n", "/", "x", "m", "l">>, v |-> [none |-> TRUE]],
                     [k |-> <<"t", "e", "x", "t", "/", "p", "l", "a", "i", "n">>, v |-> [schema |-> [type |-> "string"]]]>>],
      [content |-> <<[k |-> ApplicationJson, v |-> [schema |-> SchemaFalse]],
                     [k |-> <<"a", "p", "p", "l", "i", "c", "a", "t", "i", "o", "n", "/", "x", "m", "l">>, v |-> [schema |-> [type |-> "string"]]]>>],
      [none |-> TRUE] }

\* components.schemas of the document: one schema composed with allOf.
RequestComponents ==
    <<[k |-> NameN(1),
       v |-> [allOf |-> <<[type |-> "object",
                           example |-> JObj(<<[k |-> <<"a">>, v |-> JNum(1)]>>)],
                          [type |-> "object",
                           properties |-> <<[k |-> <<"b">>, v |-> [type |-> "string"]]>>]>>]]>>

OneOperation(op) ==
    [paths |-> <<[k |-> PetsPath,
                  v |-> [parameters |-> <<>>, entries |-> <<[k |-> <<"g", "e", "t">>, v |-> op]>>]]>>]

InitRequest ==
    /\ LoaderIdle
    /\ schemas = RequestComponents
    /\ declared = OneOperation([parameters |-> <<>>])
    /\ openApi = <<>>
    /\ parsed = <<>>
    /\ allParams = <<>>
    /\ phase = "build"
    /\ ResolverIdle
    /\ ExampleIdle
    /\ YamlIdle

SharedDeclared == declared.paths[1].v.parameters
OperationDeclared == declared.paths[1].v.entries[1].v

AddSharedParameter(param) ==
    /\ phase = "build"
    /\ Len(SharedDeclared) < MaxListed
    /\ Len(SharedDeclared) + Len(OperationDeclared.parameters) < MaxParams
    /\ declared' = [declared EXCEPT !.paths[1].v.parameters = Append(@, param)]
    /\ UNCHANGED <<lvars, schemas, openApi, parsed, allParams, rvars, evars, yvars, phase>>

AddParameter(param) ==
    /\ phase = "build"
    /\ Len(OperationDeclared.parameters) < MaxListed
    /\ Len(SharedDeclared) + Len(OperationDeclared.parameters) < MaxParams
    /\ declared' = [declared EXCEPT !.paths[1].v.entries[1].v.parameters = Append(@, param)]
    /\ UNCHANGED <<lvars, schemas, openApi, parsed, allParams, rvars, evars, yvars, phase>>

SetRequestBody(requestBody) ==
    /\ phase = "build"
    /\ ~Has(OperationDeclared, "requestBody")
    /\ declared' = [declared EXCEPT !.paths[1].v.entries[1].v =
                       ("requestBody" :> requestBody) @@ @]
    /\ UNCHANGED <<lvars, schemas, openApi, parsed, allParams, rvars, evars, yvars, phase>>

\* Lines 1375-1376: the response is parsed and aggregated.
Aggregate ==
    /\ phase = "build"
    /\ parsed' = openApiToMicroservices(JsonParse(declared))
    /\ allParams' = AllParamsOf(JsonParse(declared))
    /\ openApi' = DocumentAfter(JsonParse(declared))
    /\ phase' = "aggregated"
    /\ UNCHANGED <<lvars, schemas, declared, rvars, evars, yvars>>

\* The request schema the panel of the first listed method shows.
FirstMethod == parsed[1].endpoints[1].methods[1]

\* The objects a call of schemaToExample writes to.  The accumulator of the
\* reduce is the {} of line 1041, and the result is the {} or the spread copy of
\* line 1054; neither is an object of the schema or of the table.
Accumulator == [fresh |-> TRUE, value |-> <<>>]

ResultObject(allOfBase) == IF allOfBase.merged THEN Spread(allOfBase.value) ELSE Accumulator

\* The call of a frame gets past $ref and the direct example (line 1031).
ReachesBody(f) ==
    /\ ~DepthExceeded(f.depth)
    /\ ~IsBoolSchema(f.schema)
    /\ ~(Has(f.schema, "ref") /\ f.schema.ref # <<>>)
    /\ Has(pickExampleValue(f.schema), "undefined")

\* Object.assign(acc, value) runs in the call of frame f, line 1038.
MergesObject(f, log) ==
    /\ ReachesBody(f)
    /\ NonEmpty(f.schema, "allOf")
    /\ \E i \in 1..Len(f.schema.allOf) : \E g \in log :
           g.schema = f.schema.allOf[i] /\ g.depth = f.depth + 1 /\ isPlainObject(g.value)

\* result[key] = ... or result.additionalProp1 = ... runs, lines 1057 and 1065.
FillsResult(f, log) ==
    /\ ReachesBody(f)
    /\ IsObjectLike(f.schema, MergesObject(f, log))
    /\ \/ Has(f.schema, "properties") /\ f.schema.properties # <<>>
       \/ Has(f.schema, "additionalProperties") /\ Truthy(f.schema.additionalProperties)

\* A write of the call lands on an object that is not its own.
WritesInput(f, log) ==
    \/ MergesObject(f, log) /\ ~Accumulator.fresh
    \/ /\ FillsResult(f, log)
       /\ ~ResultObject([merged |-> MergesObject(f, log), value |-> <<>>]).fresh
       /\ ~Accumulator.fresh

\* An input of schemaToExample after the calls of the log.
AfterCalls(input, log) ==
    IF \E f \in log : WritesInput(f, log) THEN [written |-> TRUE] ELSE input

\* SchemaPanel on the request schema of a method.
PreviewRequest ==
    /\ phase = "aggregated"
    /\ parsed # <<>>
    /\ FirstMethod.request # Absent
    /\ out' = schemaToExample(FirstMethod.request, buildSchemaResolver(schemas), {}, 0)
    /\ ytext' = schemaToYaml(FirstMethod.request, buildSchemaResolver(schemas))
    /\ root' = AfterCalls(FirstMethod.request, out'.log)
    /\ schemas' = AfterCalls(schemas, out'.log)
    /\ phase' = "previewed"
    /\ UNCHANGED <<lvars, avars, hops, leaf, rvars>>

NextRequest ==
    \/ \E param \in ParamPool : AddSharedParameter(param)
    \/ \E param \in ParamPool : AddParameter(param)
    \/ \E requestBody \in BodyPool : SetRequestBody(requestBody)
    \/ Aggregate
    \/ PreviewRequest

SpecRequest == InitRequest /\ [][NextRequest]_vars

----------------------------------------------------------------------------
(* Claims about the request schema of an operation *)

\* A parameter that has a location and a name, and its key.
Keyed(param) ==
    /\ Has(param, "name") /\ param.name # <<>>
    /\ Has(param, "in") /\ param.in # <<>>
LocationAndName(param) == <<param.in, param.name>>

\* The path item and the operation a merged list was built for.
PathItemAt(doc, pathKey) == Lookup(doc.paths, pathKey)
SharedAt(doc, pathKey) ==
    IF Has(PathItemAt(doc, pathKey), "parameters")
    THEN PathItemAt(doc, pathKey).parameters ELSE <<>>
OperationAt(doc, pathKey, methodKey) == Lookup(PathItemAt(doc, pathKey).entries, methodKey)
OwnAt(doc, pathKey, methodKey) ==
    IF Has(OperationAt(doc, pathKey, methodKey), "parameters")
    THEN OperationAt(doc, pathKey, methodKey).parameters ELSE <<>>

KeptFor(merged, key) ==
    {i \in 1..Len(merged) : Keyed(merged[i]) /\ LocationAndName(merged[i]) = key}

\* C11: for every operation, the parameters its request schema is built from
\* are the path-level and the operation-level parameters merged by the key
\* (location, name): every kept parameter has a key and no key is kept twice;
\* where a path-level and an operation-level parameter share a key, the one kept
\* for it is an operation-level one; and two parameters with the same name but
\* different locations both have their key kept.
C11_MergedByLocationAndName ==
    phase # "build" =>
        \A r \in Range(allParams) :
            LET shared == Range(SharedAt(openApi, r.path))
                own == Range(OwnAt(openApi, r.path, r.key))
                merged == r.merged
            IN /\ \A i \in 1..Len(merged) :
                     /\ Keyed(merged[i])
                     /\ KeptFor(merged, LocationAndName(merged[i])) = {i}
                     /\ merged[i] \in shared \cup own
               /\ \A p \in shared, q \in own :
                     (Keyed(p) /\ Keyed(q) /\ LocationAndName(p) = LocationAndName(q)) =>
                         \E i \in KeptFor(merged, LocationAndName(q)) :
                            \E kept \in own :
                               /\ merged[i] = kept
                               /\ LocationAndName(kept) = LocationAndName(q)
               /\ \A p, q \in shared \cup own :
                     (Keyed(p) /\ Keyed(q) /\ p.name = q.name /\ p.in # q.in) =>
                         /\ KeptFor(merged, LocationAndName(p)) # {}
                         /\ KeptFor(merged, LocationAndName(q)) # {}

\* C11 witness: GET /pets was aggregated with a path-level id in path that an
\* operation-level id in path overrides, next to an id in query.
C11_Witness ==
    /\ phase = "aggregated"
    /\ Len(allParams) = 1
    /\ Len(allParams[1].merged) = 2
    /\ \E p \in Range(SharedAt(openApi, PetsPath)) :
       \E q \in Range(OwnAt(openApi, PetsPath, <<"g", "e", "t">>)) :
          /\ Keyed(p) /\ Keyed(q) /\ p # q
          /\ LocationAndName(p) = LocationAndName(q)
          /\ allParams[1].merged[1] = q
    /\ allParams[1].merged[2].name = allParams[1].merged[1].name
    /\ allParams[1].merged[2].in # allParams[1].merged[1].in

\* The schema a parameter stands for when it has none of its own.
BaseSchemaOf(param) == IF Has(param, "schema") THEN param.schema ELSE [type |-> "string"]

\* value is the schema of param as a property: the parameter's schema, to
\* which at most a description and an example were added.
IsPropertyFor(value, param) ==
    IF IsBoolSchema(BaseSchemaOf(param)) THEN value = BaseSchemaOf(param)
    ELSE /\ ~IsBoolSchema(value)
         /\ \A f \in DOMAIN BaseSchemaOf(param) :
               f \in DOMAIN value /\ value[f] = BaseSchemaOf(param)[f]
         /\ DOMAIN value \subseteq DOMAIN BaseSchemaOf(param) \cup {"description", "example"}

\* schema is the object schema of the parameters of merged at location.
IsGroupSchema(schema, merged, location) ==
    LET group == {i \in 1..Len(merged) : merged[i].in = location}
        needed == {merged[i].name : i \in {j \in group :
                                             Has(merged[j], "required") /\ merged[j].required}}
    IN /\ ~IsBoolSchema(schema)
       /\ DOMAIN schema \subseteq {"type", "properties", "required"}
       /\ schema.type = "object"
       /\ Len(schema.properties) = Cardinality(group)
       /\ Range(Keys(schema.properties)) = {merged[i].name : i \in group}
       /\ \A i \in group : IsPropertyFor(Lookup(schema.properties, merged[i].name), merged[i])
       /\ IF needed = {} THEN ~Has(schema, "required")
          ELSE /\ Has(schema, "required")
               /\ Range(schema.required) = needed
               /\ Len(schema.required) = Cardinality(needed)

NoBodyDeclared == ~Has(OperationDeclared, "requestBody")

\* paramsSchema groups the parameters of merged by location: the schema of the
\* lone group, or an object with one property per location.
IsParamsSchema(paramsSchema, merged) ==
    LET locations == {merged[i].in : i \in 1..Len(merged)}
    IN IF Cardinality(locations) = 1
       THEN \A location \in locations : IsGroupSchema(paramsSchema, merged, location)
       ELSE /\ ~IsBoolSchema(paramsSchema)
            /\ DOMAIN paramsSchema = {"type", "properties"}
            /\ paramsSchema.type = "object"
            /\ Len(paramsSchema.properties) = Cardinality(locations)
            /\ Range(Keys(paramsSchema.properties)) = locations
            /\ \A location \in locations :
                  IsGroupSchema(Lookup(paramsSchema.properties, location), merged, location)

\* C12: the params schema built from a non-empty merged list groups the
\* parameters by location, each group being an object schema whose properties
\* are exactly that group's parameters and whose required list is exactly the
\* names of that group's required parameters; with one location the group's
\* schema is the params schema itself, with several the params schema is an
\* object with one property per location, holding that group's schema.  (With no
\* request body declared the request schema is the params schema.)
C12_ParamsGroupedByLocation ==
    (phase # "build" /\ NoBodyDeclared /\ allParams[1].merged # <<>>) =>
        IsParamsSchema(FirstMethod.request, allParams[1].merged)

\* C12 witness: three merged parameters in two locations, one of them required
\* and one with a description of its own, were grouped under path and query.
C12_Witness ==
    /\ phase = "aggregated"
    /\ NoBodyDeclared
    /\ Len(allParams[1].merged) = 3
    /\ Keys(FirstMethod.request.properties) = <<<<"p", "a", "t", "h">>, <<"q", "u", "e", "r", "y">>>>
    /\ Has(Lookup(FirstMethod.request.properties, <<"p", "a", "t", "h">>), "required")
    /\ Len(Lookup(FirstMethod.request.properties, <<"q", "u", "e", "r", "y">>).properties) = 2

\* The request body schema an operation declares: the one of application/json
\* where that content type declares a schema, else the first one declared;
\* Absent where no content type declares a schema.
DeclaredBodySchema(op) ==
    LET content == IF Has(op, "requestBody") /\ Has(op.requestBody, "content")
                   THEN op.requestBody.content ELSE <<>>
        withSchema == {i \in 1..Len(content) : Has(content[i].v, "schema")}
    IN IF HasKey(content, ApplicationJson) /\ Has(Lookup(content, ApplicationJson), "schema")
       THEN Lookup(content, ApplicationJson).schema
       ELSE IF withSchema = {} THEN Absent
       ELSE content[CHOOSE i \in withSchema : \A j \in withSchema : i <= j].v.schema

\* C13: the request schema of an operation is the body schema alone when it has
\* no parameters, the params schema alone when it has no request body schema,
\* and else an object schema with exactly the two properties params and body; a
\* request body schema that is present is never dropped, a boolean one included.
C13_RequestSchemaShape ==
    phase # "build" =>
        LET merged == allParams[1].merged
            body == DeclaredBodySchema(OperationAt(openApi, PetsPath, <<"g", "e", "t">>))
            request == FirstMethod.request
        IN /\ (merged = <<>> /\ body # Absent) => request = body
           /\ (merged # <<>> /\ body = Absent) => IsParamsSchema(request, merged)
           /\ (merged # <<>> /\ body # Absent) =>
                 /\ ~IsBoolSchema(request)
                 /\ DOMAIN request = {"type", "properties"}
                 /\ request.type = "object"
                 /\ Keys(request.properties) = <<ParamsKey, BodyKey>>
                 /\ IsParamsSchema(Lookup(request.properties, ParamsKey), merged)
                 /\ Lookup(request.properties, BodyKey) = body

----------------------------------------------------------------------------
(* The aggregator at work on the responses of one operation: GET /pets is   *)
(* given responses, status by status in the order of the document text, and *)
(* the document is aggregated.                                              *)

MaxResponses == 3

StatusPool == {<<"2", "0", "0">>, <<"2", "0", "4">>, <<"2", "9", "9">>, <<"2", "5", "0">>, <<"4", "0", "4">>, <<"5", "0", "0">>, <<"d", "e", "f", "a", "u", "l", "t">>}

ContentPool ==
    { [content |-> <<[k |-> ApplicationJson, v |-> [schema |-> IdObject]]>>],
      [content |-> <<[k |-> <<"a", "p", "p", "l", "i", "c", "a", "t", "i", "o", "n", "/", "x", "m", "l">>, v |-> [schema |-> [type |-> "string"]]],
                     [k |-> ApplicationJson, v |-> [schema |-> [type |-> "integer"]]]>>],
      [content |-> <<[k |-> <<"a", "p", "p", "l", "i", "c", "a", "t", "i", "o", "n", "/", "x", "m", "l">>, v |-> [none |-> TRUE]],
                     [k |-> <<"t", "e", "x", "t", "/", "p", "l", "a", "i", "n">>, v |-> [schema |-> [type |-> "boolean"]]]>>],
      [none |-> TRUE] }

InitResponse ==
    /\ LoaderIdle
    /\ schemas = <<>>
    /\ declared = OneOperation([responses |-> <<>>])
    /\ openApi = <<>>
    /\ parsed = <<>>
    /\ allParams = <<>>
    /\ phase = "build"
    /\ ResolverIdle
    /\ ExampleIdle
    /\ YamlIdle

DeclareResponse(status, response) ==
    /\ phase = "build"
    /\ Len(OperationDeclared.responses) < MaxResponses
    /\ ~HasKey(OperationDeclared.responses, status)
    /\ declared' = [declared EXCEPT !.paths[1].v.entries[1].v.responses =
                       Append(@, [k |-> status, v |-> response])]
    /\ UNCHANGED <<lvars, schemas, openApi, parsed, allParams, rvars, evars, yvars, phase>>

NextResponse ==
    \/ \E status \in StatusPool, response \in ContentPool : DeclareResponse(status, response)
    \/ Aggregate

SpecResponse == InitResponse /\ [][NextResponse]_vars

----------------------------------------------------------------------------
(* Claims about the response schema of an operation *)

\* A status of the form 2xx.
MatchesTwoXX(status) ==
    Len(status) = 3 /\ status[1] = "2" /\ status[2] \in Digits /\ status[3] \in Digits

\* The least of a non-empty set of positions.
Least(positions) == CHOOSE i \in positions : \A j \in positions : i <= j

\* The status the order of the claim picks from responses as declared.
ChosenStatus(responses) ==
    LET statuses == Keys(responses)
        fixed == <<<<"2", "0", "0">>, <<"2", "0", "1">>, <<"2", "0", "2">>, <<"2", "0", "4">>>>
        present == {i \in 1..Len(fixed) : HasKey(responses, fixed[i])}
        twoXX == {i \in 1..Len(statuses) : MatchesTwoXX(statuses[i])}
    IN IF present # {} THEN fixed[Least(present)]
       ELSE IF twoXX # {} THEN statuses[Least(twoXX)]
       ELSE IF HasKey(responses, <<"d", "e", "f", "a", "u", "l", "t">>) THEN <<"d", "e", "f", "a", "u", "l", "t">>
       ELSE statuses[1]

\* The schema of a response's content: the one of application/json if it has
\* one, else the first schema a content type declares; Absent if there is none.
ContentSchema(response) ==
    LET content == IF Has(response, "content") THEN response.content ELSE <<>>
        withSchema == {i \in 1..Len(content) : Has(content[i].v, "schema")}
    IN IF HasKey(content, ApplicationJson) /\ Has(Lookup(content, ApplicationJson), "schema")
       THEN Lookup(content, ApplicationJson).schema
       ELSE IF withSchema = {} THEN Absent
       ELSE content[Least(withSchema)].v.schema

\* C14: the response schema comes from exactly one status, chosen in this
\* order: the first present among 200, 201, 202, 204; else the first declared
\* status of the form 2xx; else default if present; else the first declared
\* status.  It is that status's application/json schema if present, else the
\* schema of its first content type, and no other status is consulted even when
\* the chosen one has no schema.
C14_ResponseStatusOrder ==
    (phase = "aggregated" /\ OperationDeclared.responses # <<>>) =>
        FirstMethod.response =
            ContentSchema(Lookup(OperationDeclared.responses,
                                 ChosenStatus(OperationDeclared.responses)))

----------------------------------------------------------------------------
(* The aggregator at work on a whole document: a document that declares     *)
(* tags, or none, is given paths and each path operations and other         *)
(* entries, in the order of the document text, and is aggregated.           *)

MaxPaths == 2
MaxEntries == 3

PathPool == {<<"/", "p", "e", "t", "s", "/", "{", "i", "d", "}">>, <<"/", "p", "e", "t", "s", "/", "f", "i", "n", "d">>, <<"/", "S", "t", "o", "r", "e">>}

\* doc.tags: objects with a name, and one without.
TagsPool ==
    { <<[name |-> <<"S", "t", "o", "r", "e">>], [name |-> <<"P", "e", "t", "s">>]>>,
      <<[name |-> <<"P", "e", "t", "s">>], [none |-> TRUE], [name |-> <<"S", "t", "o", "r", "e">>]>>,
      <<[name |-> <<"Z", "o", "o">>]>> }

\* What a path item holds: operations under method keys, in either case, with
\* tags, a tag named twice, an empty tag list or none, and members that are no
\* operation.
EntryPool ==
    { [k |-> <<"p","o","s","t">>, v |-> [tags |-> <<<<"P","e","t","s">>>>]],
      [k |-> <<"g","e","t">>, v |-> [tags |-> <<<<"S","t","o","r","e">>, <<"P","e","t","s">>>>, operationId |-> <<" ">>]],
      [k |-> <<"g","e","t">>, v |-> [tags |-> <<<<"P","e","t","s">>>>]],
      [k |-> <<"G","e","t">>, v |-> [operationId |-> <<"l","i","s","t","P","e","t","s">>]],
      [k |-> <<"G","E","T">>, v |-> [tags |-> <<<<"P","e","t","s">>, <<"P","e","t","s">>>>]],
      [k |-> <<"d","e","l","e","t","e">>, v |-> [tags |-> <<>>]],
      [k |-> <<"d","e","l","e","t","e">>, v |-> [tags |-> <<<<"Z","o","o">>>>]],
      [k |-> <<"s","u","m","m","a","r","y">>, v |-> JStr(<<"s">>)],
      [k |-> <<"p","u","t">>, v |-> JNull] }

DocumentSeeds ==
    { [tags |-> tags, paths |-> <<>>] : tags \in TagsPool } \cup
    { [paths |-> <<>>], [tags |-> <<[name |-> <<"P", "e", "t", "s">>]>>] }

InitAggregate ==
    /\ LoaderIdle
    /\ schemas = <<>>
    /\ declared \in DocumentSeeds
    /\ openApi = <<>>
    /\ parsed = <<>>
    /\ allParams = <<>>
    /\ phase = "build"
    /\ ResolverIdle
    /\ ExampleIdle
    /\ YamlIdle

RECURSIVE CountEntries(_)
CountEntries(paths) ==
    IF paths = <<>> THEN 0 ELSE Len(paths[1].v.entries) + CountEntries(Tail(paths))

AddPath(path) ==
    /\ phase = "build"
    /\ Has(declared, "paths")
    /\ Len(declared.paths) < MaxPaths
    /\ ~HasKey(declared.paths, path)
    /\ declared' = [declared EXCEPT !.paths = Append(@, [k |-> path, v |-> [entries |-> <<>>]])]
    /\ UNCHANGED <<lvars, schemas, openApi, parsed, allParams, rvars, evars, yvars, phase>>

AddEntry(entry) ==
    /\ phase = "build"
    /\ Has(declared, "paths")
    /\ declared.paths # <<>>
    /\ CountEntries(declared.paths) < MaxEntries
    /\ ~HasKey(declared.paths[Len(declared.paths)].v.entries, entry.k)
    /\ declared' = [declared EXCEPT !.paths[Len(declared.paths)].v.entries = Append(@, entry)]
    /\ UNCHANGED <<lvars, schemas, openApi, parsed, allParams, rvars, evars, yvars, phase>>

NextAggregate ==
    \/ \E path \in PathPool : AddPath(path)
    \/ \E entry \in EntryPool : AddEntry(entry)
    \/ Aggregate

SpecAggregate == InitAggregate /\ [][NextAggregate]_vars


----------------------------------------------------------------------------
(* Claims about the aggregation of a whole document.                        *)

TheDocument == JsonParse(declared)

PathsOf(doc) == IF Has(doc, "paths") THEN doc.paths ELSE <<>>

\* The operations of the document: the entries of its path items under a
\* method key, in either case, that hold an object.
OperationsOf(doc) ==
    UNION { { [path |-> PathsOf(doc)[i].k,
               key |-> PathsOf(doc)[i].v.entries[j].k,
               op |-> PathsOf(doc)[i].v.entries[j].v,
               shared |-> ParametersOf(PathsOf(doc)[i].v)]
              : j \in { n \in 1..Len(PathsOf(doc)[i].v.entries) :
                          /\ PosIn(METHOD_ORDER, toUpperCase(PathsOf(doc)[i].v.entries[n].k)) > 0
                          /\ ~Has(PathsOf(doc)[i].v.entries[n].v, "t") } }
            : i \in 1..Len(PathsOf(doc)) }

\* The services an operation belongs to: its tags, "default" without any.
ServiceNamesOf(op) ==
    IF Has(op, "tags") /\ Len(op.tags) > 0 THEN Range(op.tags) ELSE {<<"d", "e", "f", "a", "u", "l", "t">>}

\* What the result shows of an operation.
Shown(o) == ApiMethodOf(o.op, toUpperCase(o.key), o.path, o.shared)

\* The methods a list of services holds under a service name and a path.
MethodsAt(list, name, path) ==
    UNION { UNION { Range(list[i].endpoints[j].methods)
                    : j \in { n \in 1..Len(list[i].endpoints) :
                                list[i].endpoints[n].path = path } }
            : i \in { n \in 1..Len(list) : list[n].name = name } }

EndpointPaths(service) == { service.endpoints[j].path : j \in 1..Len(service.endpoints) }

\* C15: after aggregation every operation of the document is found, with its
\* path, method, operationId and schemas, in the service of each of its tags,
\* or in the service "default" when it has no tags or an empty tag list, and
\* every method a service holds is an operation of the document at that path
\* which carries the service's name as a tag.
C15_FiledUnderEachTag ==
    phase = "aggregated" =>
        /\ \A o \in OperationsOf(TheDocument) : \A name \in ServiceNamesOf(o.op) :
               Shown(o) \in MethodsAt(parsed, name, o.path)
        /\ \A i \in 1..Len(parsed) : \A path \in EndpointPaths(parsed[i]) :
               \A method \in MethodsAt(parsed, parsed[i].name, path) :
                   \E o \in OperationsOf(TheDocument) :
                       /\ o.path = path
                       /\ parsed[i].name \in ServiceNamesOf(o.op)
                       /\ Shown(o) = method

\* An operation with two tags is shown by both services, and one without
\* tags by the service "default".
C15_Witness ==
    /\ phase = "aggregated"
    /\ \E o \in OperationsOf(TheDocument) :
           /\ Cardinality(ServiceNamesOf(o.op)) = 2
           /\ \A name \in ServiceNamesOf(o.op) : Shown(o) \in MethodsAt(parsed, name, o.path)
    /\ \E o \in OperationsOf(TheDocument) :
           /\ ~Has(o.op, "tags")
           /\ Shown(o) \in MethodsAt(parsed, <<"d", "e", "f", "a", "u", "l", "t">>, o.path)


\* The printable ASCII characters in code order, from the space (32) on,
\* without the grave accent (96).
AsciiSeq ==
    <<" ", "!", "\"", "#", "$", "%", "&", "'", "(", ")", "*", "+", ",", "-", ".", "/",
      "0", "1", "2", "3", "4", "5", "6", "7", "8", "9", ":", ";", "<", "=", ">", "?",
      "@",
      "A", "B", "C", "D", "E", "F", "G", "H", "I", "J", "K", "L", "M",
      "N", "O", "P", "Q", "R", "S", "T", "U", "V", "W", "X", "Y", "Z",
      "[", "\\", "]", "^", "_",
      "a", "b", "c", "d", "e", "f", "g", "h", "i", "j", "k", "l", "m",
      "n", "o", "p", "q", "r", "s", "t", "u", "v", "w", "x", "y", "z",
      "{", "|", "}", "~">>

CodeOf(c) == IF PosIn(AsciiSeq, c) <= 64 THEN 31 + PosIn(AsciiSeq, c) ELSE 32 + PosIn(AsciiSeq, c)

\* Lexicographic order of two texts, character code by character code.
RECURSIVE Lexicographic(_, _)
Lexicographic(a, b) ==
    IF a = <<>> /\ b = <<>> THEN 0
    ELSE IF a = <<>> THEN -1
    ELSE IF b = <<>> THEN 1
    ELSE IF CodeOf(a[1]) # CodeOf(b[1]) THEN CodeOf(a[1]) - CodeOf(b[1])
    ELSE Lexicographic(Tail(a), Tail(b))

MethodsInPrecedence(endpoint) ==
    \A j \in 1..Len(endpoint.methods) : \A k \in (j + 1)..Len(endpoint.methods) :
        PosIn(METHOD_ORDER, endpoint.methods[j].method)
            <= PosIn(METHOD_ORDER, endpoint.methods[k].method)

\* The document of the example: one path whose only members are a get and a
\* post, written in either order, both tagged Pets and nothing else.
IsPetsExample(doc) ==
    /\ Len(PathsOf(doc)) = 1
    /\ Len(PathsOf(doc)[1].v.entries) = 2
    /\ { e.k : e \in Range(PathsOf(doc)[1].v.entries) } = {<<"g", "e", "t">>, <<"p", "o", "s", "t">>}
    /\ \A e \in Range(PathsOf(doc)[1].v.entries) :
           ~Has(e.v, "t") /\ Has(e.v, "tags") /\ e.v.tags = <<<<"P", "e", "t", "s">>>>

ExampleHolds ==
    IsPetsExample(TheDocument) =>
        /\ Len(parsed) = 1
        /\ parsed[1].name = <<"P", "e", "t", "s">>
        /\ Len(parsed[1].endpoints) = 1
        /\ parsed[1].endpoints[1].path = PathsOf(TheDocument)[1].k
        /\ Len(parsed[1].endpoints[1].methods) = 2
        /\ parsed[1].endpoints[1].methods[1].method = <<"G", "E", "T">>
        /\ parsed[1].endpoints[1].methods[2].method = <<"P", "O", "S", "T">>

\* C16 as stated: in every result the endpoints of a service are in ascending
\* lexicographic path order and the methods of an endpoint in the precedence
\* GET, POST, PUT, PATCH, DELETE, and the Pets example yields one service with
\* one endpoint whose methods are GET, POST.
C16_EndpointsLexicographic ==
    phase = "aggregated" =>
        /\ \A i \in 1..Len(parsed) :
               /\ \A j \in 1..Len(parsed[i].endpoints) :
                      \A k \in (j + 1)..Len(parsed[i].endpoints) :
                          Lexicographic(parsed[i].endpoints[j].path,
                                        parsed[i].endpoints[k].path) < 0
               /\ \A j \in 1..Len(parsed[i].endpoints) :
                      MethodsInPrecedence(parsed[i].endpoints[j])
        /\ ExampleHolds

\* C16, amended: the endpoints of a service are in ascending path order under
\* the locale-aware comparison of localeCompare, which places punctuation
\* before digits before letters and compares letters without regard to case;
\* the methods of an endpoint are in the precedence GET, POST, PUT, PATCH,
\* DELETE; the Pets example yields one service with one endpoint whose methods
\* are GET, POST.
C16_EndpointsInLocaleOrder ==
    phase = "aggregated" =>
        /\ \A i \in 1..Len(parsed) :
               /\ \A j \in 1..Len(parsed[i].endpoints) :
                      \A k \in (j + 1)..Len(parsed[i].endpoints) :
                          localeCompare(parsed[i].endpoints[j].path,
                                        parsed[i].endpoints[k].path) < 0
               /\ \A j \in 1..Len(parsed[i].endpoints) :
                      MethodsInPrecedence(parsed[i].endpoints[j])
        /\ ExampleHolds

\* A service whose two endpoints are listed against the order of the document,
\* one of them with a GET and a POST that the document writes post first.
C16_Witness ==
    /\ phase = "aggregated"
    /\ Len(PathsOf(TheDocument)) = 2
    /\ \E i \in 1..Len(parsed) :
           /\ Len(parsed[i].endpoints) = 2
           /\ parsed[i].endpoints[1].path = PathsOf(TheDocument)[2].k
           /\ parsed[i].endpoints[2].path = PathsOf(TheDocument)[1].k
           /\ Len(parsed[i].endpoints[1].methods) = 2
           /\ parsed[i].endpoints[1].methods[1].method = <<"G","E","T">>
           /\ parsed[i].endpoints[1].methods[2].method = <<"P","O","S","T">>
           /\ PathsOf(TheDocument)[2].v.entries[1].k = <<"p","o","s","t">>


\* The places at which doc.tags declares a name.
DeclaredAt(name) ==
    { n \in 1..Len(DeclaredTags(TheDocument)) :
        /\ Has(DeclaredTags(TheDocument)[n], "name")
        /\ DeclaredTags(TheDocument)[n].name = name }

Matched(service) == DeclaredAt(service.name) # {}

\* C17: in every result the services whose name a tag of doc.tags declares
\* come first, in the order of the declarations; the services no tag declares
\* come after all of these, among themselves in name order; and when no
\* service is declared the whole list is in name order.
C17_DeclaredTagsFirst ==
    phase = "aggregated" =>
        /\ \A i \in 1..Len(parsed) : \A j \in (i + 1)..Len(parsed) :
               /\ Matched(parsed[j]) => Matched(parsed[i])
               /\ Matched(parsed[i]) /\ Matched(parsed[j]) =>
                      \A m \in DeclaredAt(parsed[i].name) :
                          \A n \in DeclaredAt(parsed[j].name) : m < n
               /\ ~Matched(parsed[i]) /\ ~Matched(parsed[j]) =>
                      localeCompare(parsed[i].name, parsed[j].name) < 0
        /\ (\A i \in 1..Len(parsed) : ~Matched(parsed[i])) =>
               \A i \in 1..Len(parsed) : \A j \in (i + 1)..Len(parsed) :
                   localeCompare(parsed[i].name, parsed[j].name) < 0

\* Two declared services, listed as declared and against their names' order,
\* before two that no tag declares.
C17_Witness ==
    /\ phase = "aggregated"
    /\ Len(parsed) = 4
    /\ Matched(parsed[1])
    /\ Matched(parsed[2])
    /\ localeCompare(parsed[1].name, parsed[2].name) > 0
    /\ ~Matched(parsed[3])
    /\ ~Matched(parsed[4])

----------------------------------------------------------------------------
(* The loader route, src/app/api/openapi/route.ts, on a POSIX server *)

\* process.cwd()
Cwd == <<"/", "a", "p", "p">>

\* The first place in s that holds one of the characters, Len(s) + 1 if none.
FirstOf(s, chars) ==
    IF \E i \in 1..Len(s) : s[i] \in chars
    THEN CHOOSE i \in 1..Len(s) : s[i] \in chars /\ \A j \in 1..(i - 1) : s[j] \notin chars
    ELSE Len(s) + 1

\* s.split(sep)
RECURSIVE SplitOn(_, _)
SplitOn(s, seps) ==
    IF FirstOf(s, seps) > Len(s) THEN <<s>>
    ELSE <<SubSeq(s, 1, FirstOf(s, seps) - 1)>> \o SplitOn(Drop(s, FirstOf(s, seps)), seps)

RECURSIVE JoinPath(_)
JoinPath(segments) ==
    IF segments = <<>> THEN <<>>
    ELSE <<"/">> \o segments[1] \o JoinPath(Tail(segments))

\* path.resolve's normalization: empty and "." segments go, ".." takes the
\* segment before it, and nothing goes above the root.
RECURSIVE ResolveDots(_, _)
ResolveDots(segments, kept) ==
    IF segments = <<>> THEN kept
    ELSE IF segments[1] = <<>> \/ segments[1] = <<".">>
    THEN ResolveDots(Tail(segments), kept)
    ELSE IF segments[1] = <<".", ".">>
    THEN ResolveDots(Tail(segments), SubSeq(kept, 1, Len(kept) - 1))
    ELSE ResolveDots(Tail(segments), Append(kept, segments[1]))

\* path.resolve(p): an absolute path stands for itself, any other is taken
\* from the working directory.
PathResolve(p) ==
    IF ResolveDots(SplitOn(IF StartsWith(p, <<"/">>) THEN p ELSE Cwd \o <<"/">> \o p, {"/"}), <<>>) = <<>>
    THEN <<"/">>
    ELSE JoinPath(ResolveDots(SplitOn(IF StartsWith(p, <<"/">>) THEN p ELSE Cwd \o <<"/">> \o p,
                                      {"/"}), <<>>))

DATA_ROOT == PathResolve(<<"d", "a", "t", "a">>)

isHttpUrl(text) ==
    \/ StartsWith(toLowerCase(text), <<"h", "t", "t", "p", ":", "/", "/">>)
    \/ StartsWith(toLowerCase(text), <<"h", "t", "t", "p", "s", ":", "/", "/">>)

\* new URL(text) for a text that starts with file://: the host runs up to the
\* first slash, backslash, ? or #, and the path up to the first ? or #.
UrlHost(text) == SubSeq(Drop(text, 7), 1, FirstOf(Drop(text, 7), {"/", "\\", "?", "#"}) - 1)
UrlPathText(text) ==
    SubSeq(Drop(text, 7 + Len(UrlHost(text))), 1,
           FirstOf(Drop(text, 7 + Len(UrlHost(text))), {"?", "#"}) - 1)

\* Host characters for which new URL throws.
ForbiddenHost == {" ", "<", ">", "^", "|"}
UrlParses(text) == \A i \in 1..Len(UrlHost(text)) : UrlHost(text)[i] \notin ForbiddenHost

IsSingleDot(segment) == toLowerCase(segment) \in {<<".">>, <<"%", "2", "e">>}
IsDoubleDot(segment) == toLowerCase(segment) \in {<<".", ".">>, <<".", "%", "2", "e">>, <<"%", "2", "e", ".">>, <<"%", "2", "e", "%", "2", "e">>}

\* The URL parser's path state: a single-dot segment is skipped, a double-dot
\* segment takes the segment before it, and either leaves an empty segment
\* when it is the last.
RECURSIVE UrlSegments(_, _)
UrlSegments(segments, kept) ==
    IF segments = <<>> THEN kept
    ELSE IF IsDoubleDot(segments[1])
    THEN UrlSegments(Tail(segments),
                     SubSeq(kept, 1, Len(kept) - 1)
                         \o (IF Len(segments) = 1 THEN <<<<>>>> ELSE <<>>))
    ELSE IF IsSingleDot(segments[1])
    THEN UrlSegments(Tail(segments), kept \o (IF Len(segments) = 1 THEN <<<<>>>> ELSE <<>>))
    ELSE UrlSegments(Tail(segments), Append(kept, segments[1]))

\* new URL(text).pathname.  Characters the parser would percent-encode in a
\* path (space, quotes, braces) are not part of the file URLs examined.
UrlPathname(text) ==
    IF UrlPathText(text) = <<>> THEN <<"/">>
    ELSE IF UrlSegments(Tail(SplitOn(UrlPathText(text), {"/", "\\"})), <<>>) = <<>> THEN <<"/">>
    ELSE JoinPath(UrlSegments(Tail(SplitOn(UrlPathText(text), {"/", "\\"})), <<>>))

normalizeSource(text) ==
    IF ~StartsWith(text, <<"f", "i", "l", "e", ":", "/", "/">>) THEN text
    ELSE IF ~UrlParses(text) THEN text
    ELSE IF ~decodeURIComponent(UrlPathname(text)).ok THEN text
    ELSE decodeURIComponent(UrlPathname(text)).out


\* Documents on the disk and on the network.
PetOperation == [tags |-> <<<<"P", "e", "t", "s">>>>]

Petstore ==
    [info |-> [title |-> <<"P", "e", "t", "s", "t", "o", "r", "e">>],
     paths |-> <<[k |-> <<"/", "p", "e", "t", "s">>,
                  v |-> [entries |-> <<[k |-> <<"p", "o", "s", "t">>, v |-> PetOperation],
                                       [k |-> <<"g", "e", "t">>, v |-> PetOperation]>>]]>>]

Storefront ==
    [info |-> [none |-> TRUE],
     paths |-> <<[k |-> <<"/", "S", "t", "o", "r", "e">>,
                  v |-> [entries |-> <<[k |-> <<"g", "e", "t">>, v |-> [operationId |-> <<"l", "i", "s", "t">>]]>>]]>>]

EmptyPaths == [info |-> [title |-> <<"E", "m", "p", "t", "y">>], paths |-> <<>>]

NoPaths == [info |-> [title |-> <<"N", "o", "t", "e", "s">>]]

NoOperations ==
    [paths |-> <<[k |-> <<"/", "p", "e", "t", "s">>,
                  v |-> [entries |-> <<[k |-> <<"s", "u", "m", "m", "a", "r", "y">>, v |-> JStr(<<"s">>)],
                                       [k |-> <<"p", "u", "t">>, v |-> JNull]>>]]>>]

\* The files of the server: a JSON text, or a text that is no JSON.
FileSystem ==
    << [k |-> <<"/", "a", "p", "p", "/", "d", "a", "t", "a", "/", "p", "e", "t", "S", "t", "o", "r", "e", ".", "j", "s", "o", "n">>, v |-> [text |-> Petstore]],
       [k |-> <<"/", "a", "p", "p", "/", "d", "a", "t", "a", "/", "s", "t", "o", "r", "e", ".", "j", "s", "o", "n">>, v |-> [text |-> Storefront]],
       [k |-> <<"/", "a", "p", "p", "/", "d", "a", "t", "a", "/", "e", "m", "p", "t", "y", ".", "j", "s", "o", "n">>, v |-> [text |-> EmptyPaths]],
       [k |-> <<"/", "a", "p", "p", "/", "d", "a", "t", "a", "/", "n", "o", "t", "e", "s", ".", "j", "s", "o", "n">>, v |-> [text |-> NoPaths]],
       [k |-> <<"/", "a", "p", "p", "/", "d", "a", "t", "a", "/", "i", "d", "l", "e", ".", "j", "s", "o", "n">>, v |-> [text |-> NoOperations]],
       [k |-> <<"/", "a", "p", "p", "/", "d", "a", "t", "a", "/", "b", "r", "o", "k", "e", "n", ".", "j", "s", "o", "n">>, v |-> [garbled |-> TRUE]],
       [k |-> <<"/", "a", "p", "p", "/", "d", "a", "t", "a", "b", "a", "s", "e", "/", "x", ".", "j", "s", "o", "n">>, v |-> [text |-> Storefront]],
       [k |-> <<"/", "a", "p", "p", "/", "s", "e", "c", "r", "e", "t", ".", "j", "s", "o", "n">>, v |-> [text |-> Storefront]],
       [k |-> <<"/", "a", "p", "p", "/", "d", "a", "t", "a">>, v |-> [directory |-> TRUE]],
       [k |-> <<"/", "e", "t", "c", "/", "p", "a", "s", "s", "w", "d">>, v |-> [garbled |-> TRUE]] >>

\* What fetch(source) can bring from the network.
RemotePool ==
    { [ok |-> TRUE, text |-> Storefront],
      [ok |-> TRUE, garbled |-> TRUE],
      [ok |-> FALSE, status |-> <<"4", "0", "4">>],
      [failed |-> TRUE] }

SourceKey == <<"s", "o", "u", "r", "c", "e">>

Json(status, body) == [status |-> status, body |-> body, read |-> {}]

Failure(message) == Json(400, [error |-> message])

\* Lines 38-55: the answer for an http source.
FetchRemote(remote) ==
    IF Has(remote, "failed") THEN Failure(<<"f", "e", "t", "c", "h", " ", "f", "a", "i", "l", "e", "d">>)
    ELSE IF ~remote.ok THEN Failure(<<"R", "e", "q", "u", "e", "s", "t", " ", "f", "a", "i", "l", "e", "d", " ", "w", "i", "t", "h", " ">> \o remote.status \o <<".">>)
    ELSE IF Has(remote, "garbled") THEN Failure(<<"R", "e", "s", "p", "o", "n", "s", "e", " ", "w", "a", "s", " ", "n", "o", "t", " ", "v", "a", "l", "i", "d", " ", "J", "S", "O", "N", ".">>)
    ELSE Json(200, [data |-> JsonParse(remote.text)])

\* Lines 66-72: fs.readFile and JSON.parse, with the catch clause.
ReadFile(resolvedPath) ==
    [status |-> IF HasKey(FileSystem, resolvedPath)
                     /\ Has(Lookup(FileSystem, resolvedPath), "text") THEN 200 ELSE 400,
     body |-> IF ~HasKey(FileSystem, resolvedPath)
              THEN [error |-> <<"E", "N", "O", "E", "N", "T", ":", " ", "n", "o", " ", "s", "u", "c", "h", " ", "f", "i", "l", "e", " ", "o", "r", " ", "d", "i", "r", "e", "c", "t", "o", "r", "y", ",", " ", "o", "p", "e", "n", " ", "'">> \o resolvedPath \o <<"'">>]
              ELSE IF Has(Lookup(FileSystem, resolvedPath), "directory")
              THEN [error |-> <<"E", "I", "S", "D", "I", "R", ":", " ", "i", "l", "l", "e", "g", "a", "l", " ", "o", "p", "e", "r", "a", "t", "i", "o", "n", " ", "o", "n", " ", "a", " ", "d", "i", "r", "e", "c", "t", "o", "r", "y", ",", " ", "r", "e", "a", "d">>]
              ELSE IF Has(Lookup(FileSystem, resolvedPath), "garbled")
              THEN [error |-> <<"U", "n", "e", "x", "p", "e", "c", "t", "e", "d", " ", "t", "o", "k", "e", "n">>]
              ELSE [data |-> JsonParse(Lookup(FileSystem, resolvedPath).text)],
     read |-> {resolvedPath}]

\* A reading of line 58 that leaves the separator out.
dataRootPrefix_NoSeparator == DATA_ROOT

dataRootPrefix == IF DATA_ROOT[Len(DATA_ROOT)] = "/" THEN DATA_ROOT ELSE DATA_ROOT \o <<"/">>

\* Lines 57-68.
ReadLocal(normalized) ==
    IF ~StartsWith(PathResolve(normalized), dataRootPrefix)
    THEN Failure(<<"L", "o", "c", "a", "l", " ", "p", "a", "t", "h", "s", " ", "m", "u", "s", "t", " ", "b", "e", " ", "i", "n", "s", "i", "d", "e", " ">> \o DATA_ROOT \o <<".">>)
    ELSE ReadFile(PathResolve(normalized))

\* The handler: the answer, and the path handed to fs.readFile if any.  query
\* is the search part of the request, remote what the network would answer.
GET(query, remote) ==
    IF ~HasKey(query, SourceKey) \/ Lookup(query, SourceKey) = <<>>
    THEN Failure(<<"M", "i", "s", "s", "i", "n", "g", " ", "s", "o", "u", "r", "c", "e", " ", "p", "a", "r", "a", "m", "e", "t", "e", "r", ".">>)
    ELSE IF normalizeSource(Trim(Lookup(query, SourceKey))) = <<>>
    THEN Failure(<<"S", "o", "u", "r", "c", "e", " ", "i", "s", " ", "e", "m", "p", "t", "y", ".">>)
    ELSE IF isHttpUrl(normalizeSource(Trim(Lookup(query, SourceKey))))
    THEN FetchRemote(remote)
    ELSE ReadLocal(normalizeSource(Trim(Lookup(query, SourceKey))))

----------------------------------------------------------------------------
(* The route at work: requests of any client, each answered in its turn.    *)

MaxRequests == 2

RoutePool ==
    { <<"d", "a", "t", "a", "/", "p", "e", "t", "S", "t", "o", "r", "e", ".", "j", "s", "o", "n">>, <<" ", "d", "a", "t", "a", "/", "e", "m", "p", "t", "y", ".", "j", "s", "o", "n", " ">>, <<"d", "a", "t", "a", "/", "b", "r", "o", "k", "e", "n", ".", "j", "s", "o", "n">>, <<"d", "a", "t", "a", "/", "m", "i", "s", "s", "i", "n", "g", ".", "j", "s", "o", "n">>,
      <<".", "/", "d", "a", "t", "a", "/", ".", "/", "p", "e", "t", "S", "t", "o", "r", "e", ".", "j", "s", "o", "n">>, <<"d", "a", "t", "a", "/", ".", ".", "/", "d", "a", "t", "a", "/", "s", "t", "o", "r", "e", ".", "j", "s", "o", "n">>,
      <<"d", "a", "t", "a", "/", ".", ".", "/", "s", "e", "c", "r", "e", "t", ".", "j", "s", "o", "n">>, <<".", ".", "/", "e", "t", "c", "/", "p", "a", "s", "s", "w", "d">>, <<"/", "e", "t", "c", "/", "p", "a", "s", "s", "w", "d">>, <<"/", "a", "p", "p", "/", "d", "a", "t", "a", "/", "p", "e", "t", "S", "t", "o", "r", "e", ".", "j", "s", "o", "n">>,
      <<"d", "a", "t", "a">>, <<"d", "a", "t", "a", "/">>, <<"d", "a", "t", "a", "b", "a", "s", "e", "/", "x", ".", "j", "s", "o", "n">>, <<"/", "a", "p", "p", "/", "d", "a", "t", "a", "/", ".", ".", "/", "d", "a", "t", "a", "b", "a", "s", "e", "/", "x", ".", "j", "s", "o", "n">>,
      <<"f", "i", "l", "e", ":", "/", "/", "/", "a", "p", "p", "/", "d", "a", "t", "a", "/", "p", "e", "t", "S", "t", "o", "r", "e", ".", "j", "s", "o", "n">>, <<"f", "i", "l", "e", ":", "/", "/", "/", "e", "t", "c", "/", "p", "a", "s", "s", "w", "d">>,
      <<"f", "i", "l", "e", ":", "/", "/", "/", "a", "p", "p", "/", "d", "a", "t", "a", "/", ".", ".", "%", "2", "F", "s", "e", "c", "r", "e", "t", ".", "j", "s", "o", "n">>, <<"f", "i", "l", "e", ":", "/", "/", "/", "a", "p", "p", "/", "d", "a", "t", "a", "/", "%", "2", "e", "%", "2", "E", "/", "s", "e", "c", "r", "e", "t", ".", "j", "s", "o", "n">>,
      <<"f", "i", "l", "e", ":", "/", "/", "/", "a", "p", "p", "/", "d", "a", "t", "a", "/", "%", "z", "z", ".", "j", "s", "o", "n">>, <<"f", "i", "l", "e", ":", "/", "/", "d", "a", "t", "a", "/", "p", "e", "t", "S", "t", "o", "r", "e", ".", "j", "s", "o", "n">>, <<"f", "i", "l", "e", ":", "/", "/", "a", " ", "b", "/", "x", ".", "j", "s", "o", "n">>,
      <<"F", "I", "L", "E", ":", "/", "/", "/", "a", "p", "p", "/", "d", "a", "t", "a", "/", "p", "e", "t", "S", "t", "o", "r", "e", ".", "j", "s", "o", "n">>, <<"f", "i", "l", "e", ":", "/", "/", "/", "a", "p", "p", "/", "d", "a", "t", "a", "/", ".", "/", "s", "t", "o", "r", "e", ".", "j", "s", "o", "n", "?", "x", "#", "y">>,
      <<"h", "t", "t", "p", ":", "/", "/", "x", "/", "a", "p", "i", ".", "j", "s", "o", "n">>, <<"H", "T", "T", "P", "S", ":", "/", "/", "x", "/", "a", "p", "i", ".", "j", "s", "o", "n">>, <<" ", " ">> }

QueryPool == { <<[k |-> SourceKey, v |-> text]>> : text \in RoutePool } \cup
             { <<>>, <<[k |-> SourceKey, v |-> <<>>]>> }

InitRoute ==
    /\ LoaderIdle
    /\ schemas = <<>>
    /\ phase = "route"
    /\ ResolverIdle
    /\ AggregateIdle
    /\ ExampleIdle
    /\ YamlIdle

\* A client sends a request to the route.
Send(query) ==
    /\ phase = "route"
    /\ Len(loads) < MaxRequests
    /\ loads' = Append(loads, [query |-> query, pc |-> "sent"])
    /\ UNCHANGED <<schemas, rvars, evars, yvars, avars, uvars, fsReads, phase>>

\* The route answers a request.
Serve(i, remote) ==
    /\ loads[i].pc = "sent"
    /\ loads' = [loads EXCEPT ![i] = [query |-> loads[i].query, pc |-> "answered",
                                      response |-> GET(loads[i].query, remote)]]
    /\ fsReads' = fsReads \cup GET(loads[i].query, remote).read
    /\ UNCHANGED <<schemas, rvars, evars, yvars, avars, uvars, phase>>

NoRemote == [failed |-> TRUE]

\* The network is asked for http sources only.
RemoteFor(query) ==
    IF HasKey(query, SourceKey) /\ isHttpUrl(normalizeSource(Trim(Lookup(query, SourceKey))))
    THEN RemotePool ELSE {NoRemote}

NextRoute ==
    \/ \E query \in QueryPool : Send(query)
    \/ \E i \in 1..Len(loads) : \E remote \in RemoteFor(loads[i].query) : Serve(i, remote)

SpecRoute == InitRoute /\ [][NextRoute]_vars


\* The segments of an absolute path, as written.
SegmentsOf(p) == Tail(SplitOn(p, {"/"}))

DataRootSegments == <<<<"a", "p", "p">>, <<"d", "a", "t", "a">>>>

\* A path that names something below the data root: it is written without
\* empty, "." or ".." segments, starts with the segments of the data root and
\* goes on below them.
StrictlyInsideDataRoot(p) ==
    /\ StartsWith(p, <<"/">>)
    /\ \A i \in 1..Len(SegmentsOf(p)) : SegmentsOf(p)[i] \notin {<<>>, <<".">>, <<".", ".">>}
    /\ Len(SegmentsOf(p)) > Len(DataRootSegments)
    /\ SubSeq(SegmentsOf(p), 1, Len(DataRootSegments)) = DataRootSegments

\* The source a request carries, as the handler takes it.
SourceOf(query) == normalizeSource(Trim(Lookup(query, SourceKey)))

IsLocalRequest(query) ==
    /\ HasKey(query, SourceKey)
    /\ SourceOf(query) # <<>>
    /\ ~isHttpUrl(SourceOf(query))

\* C20: every path the route hands to fs.readFile lies strictly inside the
\* data root; a request whose source is no http(s) URL has its file read
\* exactly when the resolved path of the source lies strictly inside the data
\* root, and is otherwise answered with status 400 and an error message
\* without a read.
C20_ReadsOnlyInsideDataRoot ==
    /\ \A p \in fsReads : StrictlyInsideDataRoot(p)
    /\ \A i \in 1..Len(loads) :
           loads[i].pc # "sent" /\ IsLocalRequest(loads[i].query) =>
               /\ loads[i].response.read \subseteq fsReads
               /\ StrictlyInsideDataRoot(PathResolve(SourceOf(loads[i].query))) =>
                      loads[i].response.read = {PathResolve(SourceOf(loads[i].query))}
               /\ ~StrictlyInsideDataRoot(PathResolve(SourceOf(loads[i].query))) =>
                      /\ loads[i].response.read = {}
                      /\ loads[i].response.status = 400
                      /\ Has(loads[i].response.body, "error")

\* A file below the data root has been read, and a request for a file of the
\* sibling folder database was refused without a read.
C20_Witness ==
    /\ fsReads # {}
    /\ \E i \in 1..Len(loads) :
           /\ loads[i].pc = "answered"
           /\ IsLocalRequest(loads[i].query)
           /\ StartsWith(PathResolve(SourceOf(loads[i].query)), DATA_ROOT)
           /\ loads[i].response.read = {}
           /\ loads[i].response.status = 400


----------------------------------------------------------------------------
(* The explorer's loader: loadSource of OpenApiIoExplorer, its requests      *)
(* answered by the route.                                                   *)

MaxLoads == 3

DEFAULT_SOURCE == <<"d", "a", "t", "a", "/", "p", "e", "t", "S", "t", "o", "r", "e", ".", "j", "s", "o", "n">>

\* What the user types into the source field.
TypedPool ==
    { <<"d", "a", "t", "a", "/", "s", "t", "o", "r", "e", ".", "j", "s", "o", "n">>, <<" ", "d", "a", "t", "a", "/", "e", "m", "p", "t", "y", ".", "j", "s", "o", "n", " ">>, <<"d", "a", "t", "a", "/", "n", "o", "t", "e", "s", ".", "j", "s", "o", "n">>, <<"d", "a", "t", "a", "/", "i", "d", "l", "e", ".", "j", "s", "o", "n">>,
      <<"d", "a", "t", "a", "/", "b", "r", "o", "k", "e", "n", ".", "j", "s", "o", "n">>, <<".", ".", "/", "e", "t", "c", "/", "p", "a", "s", "s", "w", "d">>, <<"h", "t", "t", "p", ":", "/", "/", "x", "/", "a", "p", "i", ".", "j", "s", "o", "n">>, <<" ", " ">> }

InitLoad ==
    /\ schemas = <<>>
    /\ phase = "created"
    /\ source = DEFAULT_SOURCE
    /\ services = <<>>
    /\ error = JNull
    /\ loading = FALSE
    /\ loadedSource = JNull
    /\ specTitle = JNull
    /\ previewDoc = JNull
    /\ loads = <<>>
    /\ fsReads = {}
    /\ ResolverIdle
    /\ AggregateIdle
    /\ ExampleIdle
    /\ YamlIdle

\* Lines 1356-1365, up to the await of fetch.  The target is sent as the
\* source parameter: searchParams.get undoes encodeURIComponent.
loadSource(nextSource) ==
    /\ Trim(nextSource) # <<>> => Len(loads) < MaxLoads
    /\ error' = IF Trim(nextSource) = <<>> THEN JStr(<<"E", "n", "t", "e", "r", " ", "a", " ", "f", "i", "l", "e", " ", "p", "a", "t", "h", " ", "o", "r", " ", "U", "R", "L", ".">>) ELSE JNull
    /\ loading' = IF Trim(nextSource) = <<>> THEN loading ELSE TRUE
    /\ loads' = IF Trim(nextSource) = <<>> THEN loads
                ELSE Append(loads, [query |-> <<[k |-> SourceKey, v |-> Trim(nextSource)]>>,
                                    pc |-> "sent"])
    /\ UNCHANGED <<schemas, rvars, evars, yvars, avars, fsReads>>
    /\ UNCHANGED <<services, loadedSource, specTitle, previewDoc>>

\* useEffect(() => { void loadSource(DEFAULT_SOURCE); }, [])
Mount ==
    /\ phase = "created"
    /\ phase' = "mounted"
    /\ loadSource(DEFAULT_SOURCE)
    /\ UNCHANGED source

\* onChange of the source field
Type(text) ==
    /\ phase = "mounted"
    /\ source' = text
    /\ UNCHANGED <<schemas, rvars, evars, yvars, avars, fsReads, loads, phase>>
    /\ UNCHANGED <<services, error, loading, loadedSource, specTitle, previewDoc>>

\* The Load button, or Enter in the source field: loadSource()
Load ==
    /\ phase = "mounted"
    /\ loadSource(source)
    /\ UNCHANGED <<source, phase>>

TargetOf(load) == Lookup(load.query, SourceKey)

ResponseOk(response) == response.status >= 200 /\ response.status <= 299

\* A reading of line 1377 that never finds the list empty.
NoEndpoints_Never(list) == FALSE

\* !parsed.length, line 1377
NoEndpoints(list) == list = <<>>

\* The body that reached the client is no JSON text: response.json() rejects.
Unparsable(response) == Has(response.body, "garbled")

\* The message of the SyntaxError of response.json() on a page of markup.
SyntaxErrorMessage == <<"U", "n", "e", "x", "p", "e", "c", "t", "e", "d", " ", "t", "o", "k", "e", "n", " ", "<", " ", "i", "n", " ", "J", "S", "O", "N", " ", "a", "t", " ", "p", "o", "s", "i", "t", "i", "o", "n", " ", "0">>

\* The Error thrown in the try block, if any: lines 1366-1379.
Throws(response) ==
    \/ ~ResponseOk(response)
    \/ Unparsable(response)
    \/ NoEndpoints(openApiToMicroservices(JsonParse(response.body.data)))

\* The fallback of line 1386 used for every Error.
Message_Fallback(response, target) ==
    <<"F", "a", "i", "l", "e", "d", " ", "t", "o", " ", "l", "o", "a", "d", " ", "t", "h", "e", " ", "s", "o", "u", "r", "c", "e", ".">>

\* err.message of the Error caught at line 1385.
Message(response, target) ==
    IF ResponseOk(response) /\ Unparsable(response) THEN SyntaxErrorMessage
    ELSE IF ResponseOk(response) THEN <<"N", "o", " ", "e", "n", "d", "p", "o", "i", "n", "t", "s", " ", "f", "o", "u", "n", "d", " ", "i", "n", " ", "t", "h", "e", " ", "O", "p", "e", "n", "A", "P", "I", " ", "d", "o", "c", "u", "m", "e", "n", "t", ".">>
    ELSE IF Has(response.body, "error") THEN response.body.error
    ELSE <<"F", "a", "i", "l", "e", "d", " ", "t", "o", " ", "l", "o", "a", "d", " ">> \o target

\* A reading of line 1383 that never finds a title.
TitleOf_Missing(doc) == JNull

\* typeof openApi?.info?.title === "string" ? openApi.info.title : null
TitleOf(doc) ==
    IF Has(doc, "info") /\ Has(doc.info, "title") THEN JStr(doc.info.title) ELSE JNull

\* loadSource resumes with the response: lines 1366-1389.
Receive(i) ==
    /\ phase = "mounted"
    /\ loads[i].pc = "answered"
    /\ loads' = [loads EXCEPT ![i].pc = "done"]
    /\ loading' = FALSE
    /\ error' = IF Throws(loads[i].response)
                THEN JStr(Message(loads[i].response, TargetOf(loads[i])))
                ELSE error
    /\ services' = IF Throws(loads[i].response) THEN services
                   ELSE openApiToMicroservices(JsonParse(loads[i].response.body.data))
    /\ loadedSource' = IF Throws(loads[i].response) THEN loadedSource
                       ELSE JStr(TargetOf(loads[i]))
    /\ specTitle' = IF Throws(loads[i].response) THEN specTitle
                    ELSE TitleOf(JsonParse(loads[i].response.body.data))
    /\ previewDoc' = IF Throws(loads[i].response) THEN previewDoc
                     ELSE DocumentAfter(JsonParse(loads[i].response.body.data))
    /\ UNCHANGED <<schemas, rvars, evars, yvars, avars, source, fsReads, phase>>

NextLoad ==
    \/ Mount
    \/ \E text \in TypedPool \cup {DEFAULT_SOURCE} : Type(text)
    \/ Load
    \/ \E i \in 1..Len(loads) : \E remote \in RemoteFor(loads[i].query) : Serve(i, remote)
    \/ \E i \in 1..Len(loads) : Receive(i)

SpecLoad == InitLoad /\ [][NextLoad]_vars

----------------------------------------------------------------------------
(* The loader with a gateway between the browser and the route, which may    *)
(* answer a request in the route's place.                                    *)

MaxGatewayLoads == 2

\* What the user types into the source field here.
GatewayPool ==
    { <<"d", "a", "t", "a", "/", "s", "t", "o", "r", "e", ".", "j", "s", "o", "n">>, <<" ", "d", "a", "t", "a", "/", "e", "m", "p", "t", "y", ".", "j", "s", "o", "n", " ">>, <<".", ".", "/", "e", "t", "c", "/", "p", "a", "s", "s", "w", "d">>, <<" ", " ">> }

\* The answer that reaches the browser is not the route's: the gateway answers
\* with a page of markup, under the status 200 or 502.
Intercept(i, status) ==
    /\ phase = "mounted"
    /\ loads[i].pc = "sent"
    /\ loads' = [loads EXCEPT ![i] = [query |-> loads[i].query, pc |-> "answered",
                                      response |-> Json(status, [garbled |-> TRUE])]]
    /\ UNCHANGED <<schemas, rvars, evars, yvars, avars, uvars, fsReads, phase>>

NextGateway ==
    \/ Mount
    \/ \E text \in GatewayPool : Type(text)
    \/ (Trim(source) = <<>> \/ Len(loads) < MaxGatewayLoads) /\ Load
    \/ \E i \in 1..Len(loads) : \E remote \in RemoteFor(loads[i].query) : Serve(i, remote)
    \/ \E i \in 1..Len(loads) : \E status \in {200, 502} : Intercept(i, status)
    \/ \E i \in 1..Len(loads) : Receive(i)

SpecGateway == InitLoad /\ [][NextGateway]_vars


NoEndpointsMessage == <<"N", "o", " ", "e", "n", "d", "p", "o", "i", "n", "t", "s", " ", "f", "o", "u", "n", "d", " ", "i", "n", " ", "t", "h", "e", " ", "O", "p", "e", "n", "A", "P", "I", " ", "d", "o", "c", "u", "m", "e", "n", "t", ".">>

\* A document whose paths is absent, empty or without any operation.
IsEmptyDocument(doc) == OperationsOf(doc) = {}

\* loadSource resumes, in this step, with an OK response for load i that
\* holds a document.
Resumes(i) ==
    /\ i <= Len(loads)
    /\ loads[i].pc = "answered"
    /\ loads'[i].pc = "done"
    /\ ResponseOk(loads[i].response)
    /\ ~Unparsable(loads[i].response)

\* C18: when a load resumes with a document whose paths is absent, empty or
\* without any GET, POST, PUT, PATCH or DELETE operation, the aggregation of
\* the document yields no service, the load sets the error "No endpoints found
\* in the OpenAPI document.", and services and previewDoc stay what they were.
C18_EmptyDocumentIsAnError ==
    [][\A i \in 1..Len(loads) :
           Resumes(i) /\ IsEmptyDocument(JsonParse(loads[i].response.body.data)) =>
               /\ openApiToMicroservices(JsonParse(loads[i].response.body.data)) = <<>>
               /\ error' = JStr(NoEndpointsMessage)
               /\ services' = services
               /\ previewDoc' = previewDoc]_vars

\* A load of a document without operations has ended with the error while the
\* services of the document loaded before are still installed.
C18_Witness ==
    /\ error = JStr(NoEndpointsMessage)
    /\ services # <<>>
    /\ previewDoc # JNull
    /\ \E i \in 1..Len(loads) :
           /\ loads[i].pc = "done"
           /\ ResponseOk(loads[i].response)
           /\ ~Unparsable(loads[i].response)
           /\ Has(JsonParse(loads[i].response.body.data), "paths")
           /\ JsonParse(loads[i].response.body.data).paths # <<>>
           /\ IsEmptyDocument(JsonParse(loads[i].response.body.data))


\* C19: after the aggregation the document, with every parameter object and
\* every parameter schema in it, is what response.json() built, also where a
\* parameter's description or example was copied onto the schema filed; and
\* after a request schema was materialized, that schema and the schema table
\* are what they were.
C19_InputsNotMutated ==
    /\ phase \in {"aggregated", "previewed"} => openApi = JsonParse(declared)
    /\ phase = "previewed" =>
           /\ root = FirstMethod.request
           /\ schemas = RequestComponents

\* A parameter whose example was copied onto the schema filed for it, and a
\* materialization that merged the examples of an allOf of the table.
C19_Witness ==
    /\ phase = "previewed"
    /\ \E i \in 1..Len(allParams[1].merged) :
           /\ Has(allParams[1].merged[i], "schema")
           /\ Has(allParams[1].merged[i], "example")
           /\ ParamSchema(allParams[1].merged[i]).value # allParams[1].merged[i].schema
    /\ \E f \in out.log : MergesObject(f, out.log)
    /\ \E f \in out.log : FillsResult(f, out.log)

----------------------------------------------------------------------------
(* The materializer on nodes that carry several keywords at once: the root   *)
(* is written one keyword at a time, may then be put under arrays to lie     *)
(* deeper, and is materialized against a table of two components.            *)

NameNode == <<"N", "o", "d", "e">>
NameGone == <<"G", "o", "n", "e">>
KeyA == <<"a">>
KeyB == <<"b">>
KeyC == <<"c">>
KeyD == <<"d">>
KeyNext == <<"n", "e", "x", "t">>

\* components.schemas: Pet is an object with one property, Node refers to
\* itself through its property next.  No component is called Gone.
RulesTable ==
    << [k |-> NamePet,
        v |-> [type |-> "object",
               properties |-> <<[k |-> KeyId, v |-> [type |-> "integer"]]>>]],
       [k |-> NameNode,
        v |-> [type |-> "object",
               properties |-> <<[k |-> KeyNext, v |-> [ref |-> PointerTo(NameNode)]]>>]] >>

\* The keywords a node is written from, each with the values it may take.
KeywordPool ==
    { [type |-> "object"], [type |-> "array"], [type |-> "string"],
      [ref |-> PointerTo(NameNode)], [ref |-> PointerTo(NameGone)],
      [example |-> JStr(<<"e">>)],
      [properties |-> << [k |-> KeyB, v |-> [ref |-> PointerTo(NamePet)]],
                         [k |-> KeyA, v |-> [ref |-> PointerTo(NamePet)]],
                         [k |-> KeyD, v |-> [items |-> [ref |-> PointerTo(NamePet)]]],
                         [k |-> KeyC, v |-> [items |-> [ref |-> PointerTo(NamePet)]]] >>],
      [additionalProperties |-> SchemaFalse], [additionalProperties |-> SchemaTrue],
      [items |-> SchemaFalse], [items |-> [ref |-> PointerTo(NamePet)]],
      [allOf |-> <<[ref |-> PointerTo(NamePet)]>>],
      [allOf |-> <<[type |-> "string"], [type |-> "integer"]>>],
      [oneOf |-> <<[type |-> "integer"], [type |-> "string"]>>],
      [anyOf |-> <<[type |-> "boolean"]>>] }

InitRules ==
    /\ LoaderIdle
    /\ schemas = RulesTable
    /\ root = NoKeyword
    /\ leaf = root
    /\ hops = <<>>
    /\ out = Absent
    /\ phase = "schema"
    /\ ResolverIdle
    /\ AggregateIdle
    /\ YamlIdle

\* One more keyword is written into the node.
Put(keyword) ==
    /\ phase = "schema"
    /\ hops = <<>>
    /\ DOMAIN keyword \cap DOMAIN root = {}
    /\ root' = root @@ keyword
    /\ leaf' = root'
    /\ UNCHANGED <<lvars, avars, schemas, hops, out, rvars, yvars, phase>>

NextRules ==
    \/ \E keyword \in KeywordPool : Put(keyword)
    \/ Wrap("items")
    \/ Materialize

SpecRules == InitRules /\ [][NextRules]_vars

----------------------------------------------------------------------------
(* Claims about the materializer's rules, checked under SpecRules *)

\* The calls made one level below the call f, on the schema s, with the
\* in-flight set seen.
CallsBelow(f, s, seen) ==
    {g \in out.log : g.schema = s /\ g.depth = f.depth + 1 /\ g.seenIn = seen}

\* A non-empty allOf of the node had a member whose example is a mapping.
MergeGaveObject(f) ==
    /\ NonEmpty(f.schema, "allOf")
    /\ \E i \in 1..Len(f.schema.allOf) :
          \E g \in CallsBelow(f, f.schema.allOf[i], f.seenIn) : isPlainObject(g.value)

\* Object-like: type is object, or properties or additionalProperties is
\* present, or the allOf merge produced an object.
ObjectLikeNode(f) ==
    \/ TypeIs(f.schema, "object")
    \/ Has(f.schema, "properties")
    \/ Has(f.schema, "additionalProperties")
    \/ MergeGaveObject(f)

\* Array-like: type is array, or items is present.
ArrayLikeNode(f) == TypeIs(f.schema, "array") \/ Has(f.schema, "items")

HasDirectExample(s) ==
    \/ Has(s, "example") \/ NonEmpty(s, "examples")
    \/ Has(s, "default") \/ NonEmpty(s, "enum")

HasLeafType(s) ==
    Has(s, "type") /\ s.type \in {"string", "integer", "number", "boolean"}

\* The first rule of the precedence that applies to the node of the call f.
RuleOf(f) ==
    IF f.depth > 6 THEN "depth"
    ELSE IF IsBoolSchema(f.schema) THEN "boolean"
    ELSE IF Has(f.schema, "ref") THEN "ref"
    ELSE IF HasDirectExample(f.schema) THEN "example"
    ELSE IF ObjectLikeNode(f) THEN "object"
    ELSE IF ArrayLikeNode(f) THEN "array"
    ELSE IF NonEmpty(f.schema, "allOf") THEN "allOf"
    ELSE IF NonEmpty(f.schema, "oneOf") THEN "oneOf"
    ELSE IF NonEmpty(f.schema, "anyOf") THEN "anyOf"
    ELSE IF HasLeafType(f.schema) THEN "type"
    ELSE "value"

\* The value of the call f is the one the rule gives.
DecidedBy(f, rule) ==
    CASE rule = "depth" -> f.value = JStr(DepthSentinel)
      [] rule = "boolean" ->
             f.value = JStr(IF f.schema.bool THEN AnySentinel ELSE NeverSentinel)
      [] rule = "ref" ->
             \/ f.schema.ref \in f.seenIn /\ f.value = JStr(CircularSentinel)
             \/ /\ f.schema.ref \notin f.seenIn
                /\ \/ f.value = JStr(f.schema.ref)
                   \/ \E g \in out.log :
                         /\ g.depth = f.depth + 1
                         /\ g.seenIn = f.seenIn \cup {f.schema.ref}
                         /\ g.schema = resolveRef(buildSchemaResolver(schemas), f.schema.ref)
                         /\ g.value = f.value
      [] rule = "example" -> f.value = pickExampleValue(f.schema)
      [] rule = "object" -> f.value.t = "obj"
      [] rule = "array" -> f.value.t = "arr"
      [] rule \in {"allOf", "oneOf", "anyOf"} ->
             \E g \in CallsBelow(f, f.schema[rule][1], f.seenIn) : g.value = f.value
      [] rule = "type" ->
             f.value = CASE f.schema.type = "string" ->
                              JStr(stringFallbackForFormat(
                                  IF Has(f.schema, "format") THEN f.schema.format ELSE ""))
                         [] f.schema.type = "boolean" -> JBool(FALSE)
                         [] OTHER -> JNum(0)
      [] OTHER -> f.value = JStr(ValueLiteral)

\* C21 as stated: every call of the materializer is decided by the first rule
\* that applies to its node, in the order depth limit, boolean schema, $ref,
\* direct example, object-like, array-like, remaining allOf, oneOf, anyOf, leaf
\* by type, "value"; so that a node with $ref ignores its example and
\* properties, a node both object-like and array-like gives a mapping, and a
\* node with oneOf and anyOf gives its first oneOf branch.
C21_FirstApplicableRule ==
    phase = "done" => \A f \in out.log : DecidedBy(f, RuleOf(f))

\* The calls made on a $ref that was not in flight and that resolved.
FollowedRefs ==
    { f \in out.log :
        /\ f.depth <= 6 /\ IsRefNode(f.schema)
        /\ f.schema.ref \notin f.seenIn
        /\ Truthy(resolveRef(buildSchemaResolver(schemas), f.schema.ref)) }

\* The schemas that refer to the component p directly or as array items.
RefersTo(s, p) == s = [ref |-> p] \/ s = [items |-> [ref |-> p]]

\* The example of the schema s when it is met at depth d with nothing in
\* flight.
ExampleAt(s, d) == schemaToExample(s, buildSchemaResolver(schemas), {}, d).value

\* Pet's example where the depth limit does not cut it.
PetExample == JObj(<<[k |-> KeyId, v |-> JNum(0)]>>)

\* The example holds the in-flight sentinel somewhere.
RECURSIVE HoldsCircular(_)
HoldsCircular(v) ==
    CASE v.t = "str" -> v.v = CircularSentinel
      [] v.t = "arr" -> \E i \in 1..Len(v.v) : HoldsCircular(v.v[i])
      [] v.t = "obj" -> \E i \in 1..Len(v.v) : HoldsCircular(v.v[i].v)
      [] OTHER -> FALSE

\* The calls that gave a mapping from the node's own properties.
PropertyCalls ==
    { f \in out.log :
        /\ f.depth <= 6 /\ ~IsBoolSchema(f.schema) /\ ~Has(f.schema, "ref")
        /\ ~HasDirectExample(f.schema) /\ Has(f.schema, "properties") }

----------------------------------------------------------------------------
(* Tree builder, src/components/schemaToTree.ts *)

\* The text of a type or format word of a schema.
WordOf(w) ==
    CASE w = "array" -> <<"a", "r", "r", "a", "y">>
      [] w = "object" -> <<"o", "b", "j", "e", "c", "t">>
      [] w = "string" -> <<"s", "t", "r", "i", "n", "g">>
      [] w = "integer" -> <<"i", "n", "t", "e", "g", "e", "r">>
      [] w = "number" -> <<"n", "u", "m", "b", "e", "r">>
      [] w = "boolean" -> <<"b", "o", "o", "l", "e", "a", "n">>
      [] w = "date" -> <<"d", "a", "t", "e">>
      [] OTHER -> <<"n", "u", "l", "l">>

\* String(n) for a natural number.
RECURSIVE Decimal(_)
Decimal(n) == IF n < 10 THEN <<DigitSeq[n + 1]>>
              ELSE Decimal(n \div 10) \o <<DigitSeq[(n % 10) + 1]>>

\* parts.join(" ")
RECURSIVE JoinWith(_, _)
JoinWith(parts, sep) ==
    IF parts = <<>> THEN <<>>
    ELSE IF Len(parts) = 1 THEN parts[1]
    ELSE parts[1] \o sep \o JoinWith(Tail(parts), sep)

\* schemaTypeLabel; on a boolean schema every field reads as undefined.
schemaTypeLabel(schema) ==
    LET refPart == IF Has(schema, "ref") /\ schema.ref # <<>>
                   THEN <<<<"$", "r", "e", "f", ":", " ">> \o schema.ref>> ELSE <<>>
        typePart == IF Has(schema, "type") THEN <<WordOf(schema.type)>> ELSE <<>>
        formatPart == IF Has(schema, "format")
                      THEN <<<<"(">> \o WordOf(schema.format) \o <<")">>>> ELSE <<>>
        nullPart == IF Has(schema, "nullable") /\ schema.nullable
                    THEN <<<<"n", "u", "l", "l", "a", "b", "l", "e">>>> ELSE <<>>
        parts == refPart \o typePart \o formatPart \o nullPart
    IN IF parts = <<>> /\ Has(schema, "enum") THEN <<"e", "n", "u", "m">>
       ELSE JoinWith(parts, <<" ">>)

\* schemaTypeLabel(schema) || "object"
TypeOrObject(schema) ==
    IF schemaTypeLabel(schema) = <<>> THEN <<"o", "b", "j", "e", "c", "t">> ELSE schemaTypeLabel(schema)

\* node(label, value), children undefined.
bareNode(label, value) == [label |-> label, value |-> value]

\* node(label, value, children)
node(label, value, children) == [label |-> label, value |-> value, children |-> children]

\* splitLabel: the text before the first colon and the text after it.
splitLabel(mainLabel) ==
    LET colonIndex == IndexOf(mainLabel, ":")
    IN IF colonIndex = -1 THEN [name |-> mainLabel, description |-> <<>>]
       ELSE [name |-> Trim(SubSeq(mainLabel, 1, colonIndex)),
             description |-> Trim(Drop(mainLabel, colonIndex + 1))]

\* renderLabel: the text of the tree-label-main span, the name followed by
\* ": " and the descriptions joined by " - ".  The schemas written below carry
\* no enum and no example, for which a badge and an example span are added.
renderLabel(mainLabel, schema) ==
    LET parts == splitLabel(mainLabel)
        schemaDescription ==
            IF Truthy(schema) /\ ~IsBoolSchema(schema) /\ Has(schema, "description")
            THEN Trim(schema.description) ELSE <<>>
        fullDescription ==
            JoinWith(SelectSeq(<<parts.description, schemaDescription>>,
                               LAMBDA d : d # <<>>), <<" ", "-", " ">>)
    IN IF fullDescription # <<>> THEN parts.name \o <<":", " ">> \o fullDescription
       ELSE parts.name

RECURSIVE build(_, _, _)

\* schema[word].map((s, i) => build(s, `${key}.word[${i}]`, `#${i + 1}`))
Branches(list, key, word) ==
    [i \in 1..Len(list) |->
        build(list[i], key \o <<".">> \o word \o <<"[">> \o Decimal(i - 1) \o <<"]">>,
              <<"#">> \o Decimal(i))]

\* The wrapper pushed for one of oneOf, anyOf, allOf, lines 135-161.
Wrapper(schema, key, field, word) ==
    IF NonEmpty(schema, field)
    THEN <<node(renderLabel(word, Absent), key \o <<":">> \o word,
                Branches(schema[field], key, word))>>
    ELSE <<>>

compositionNodes(schema, key) ==
    Wrapper(schema, key, "oneOf", <<"o", "n", "e", "O", "f">>)
        \o Wrapper(schema, key, "anyOf", <<"a", "n", "y", "O", "f">>)
        \o Wrapper(schema, key, "allOf", <<"a", "l", "l", "O", "f">>)

\* The node pushed for one entry of schema.properties, lines 183-194.
PropNode(schema, key, entry) ==
    LET suffix == IF Has(schema, "required") /\ entry.k \in Range(schema.required)
                  THEN <<" ", "*">> ELSE <<>>
    IN IF IsBoolSchema(entry.v)
       THEN bareNode(renderLabel(entry.k \o suffix \o <<":", " ">>
                                    \o (IF entry.v.bool THEN <<"a", "n", "y">> ELSE <<"n", "e", "v", "e", "r">>), Absent),
                     key \o <<".">> \o entry.k)
       ELSE build(entry.v, key \o <<".">> \o entry.k,
                  entry.k \o suffix \o <<":", " ">> \o TypeOrObject(entry.v))

\* The nodes pushed for additionalProperties, lines 198-210.
AdditionalNodes(schema, key) ==
    IF ~(Has(schema, "additionalProperties") /\ Truthy(schema.additionalProperties))
    THEN <<>>
    ELSE IF IsBoolSchema(schema.additionalProperties)
    THEN <<bareNode(renderLabel(<<"a", "d", "d", "i", "t", "i", "o", "n", "a", "l", "P", "r", "o", "p", "e", "r", "t", "i", "e", "s", ":", " ", "a", "n", "y">>, Absent),
                    key \o <<".", "$", "a", "d", "d", "i", "t", "i", "o", "n", "a", "l">>)>>
    ELSE <<node(renderLabel(<<"a", "d", "d", "i", "t", "i", "o", "n", "a", "l", "P", "r", "o", "p", "e", "r", "t", "i", "e", "s">>, Absent), key \o <<".", "$", "a", "d", "d", "i", "t", "i", "o", "n", "a", "l">>,
                <<build(schema.additionalProperties, key \o <<".", "$", "a", "d", "d", "i", "t", "i", "o", "n", "a", "l">>,
                        <<"v", "a", "l", "u", "e", ":", " ">> \o TypeOrObject(schema.additionalProperties))>>)>>

\* build(schema, key, label); every call in the file passes a label.  The test
\* items === false of line 170 lies inside the test of line 165, which a false
\* items does not pass.
build(schema, key, label) ==
    LET currentLabel == renderLabel(label, schema)
    IN IF TypeIs(schema, "array") /\ Has(schema, "items") /\ Truthy(schema.items)
       THEN IF IsBoolSchema(schema.items)
            THEN node(currentLabel, key,
                      compositionNodes(schema, key)
                          \o <<bareNode(renderLabel(<<"i", "t", "e", "m", "s", ":", " ", "a", "n", "y">>, Absent), key \o <<"[", "]">>)>>)
            ELSE node(currentLabel, key,
                      compositionNodes(schema, key)
                          \o <<build(schema.items, key \o <<"[", "]">>,
                                     <<"i", "t", "e", "m", "s", ":", " ">> \o TypeOrObject(schema.items))>>)
       ELSE node(currentLabel, key,
                 compositionNodes(schema, key)
                     \o (IF Has(schema, "properties")
                         THEN [i \in 1..Len(schema.properties) |->
                                  PropNode(schema, key, schema.properties[i])]
                         ELSE <<>>)
                     \o AdditionalNodes(schema, key))

\* schemaToTree(schema, rootName)
schemaToTree(schema, rootName) ==
    IF IsBoolSchema(schema)
    THEN <<bareNode(renderLabel(rootName \o <<":", " ">> \o (IF schema.bool THEN <<"a", "n", "y">> ELSE <<"n", "e", "v", "e", "r">>),
                                Absent),
                    rootName)>>
    ELSE <<build(schema, rootName, Trim(rootName \o <<":", " ">> \o TypeOrObject(schema)))>>

----------------------------------------------------------------------------
(* The tree builder at work: a schema is written one keyword at a time and   *)
(* shown by a SchemaPanel under the title Request or Response.               *)

KeyTags == <<"t", "a", "g", "s">>
KeyAny == <<"a", "n", "y">>
KeyNone == <<"n", "o", "n", "e">>

\* The keywords a shown schema is written from, each with the values it may
\* take.
TreeKeywordPool ==
    { [type |-> "array"], [type |-> "object"], [type |-> "string"],
      [items |-> SchemaTrue], [items |-> SchemaFalse], [items |-> [type |-> "string"]],
      [items |-> [type |-> "array", items |-> [ref |-> PointerTo(NamePet)],
                  anyOf |-> <<SchemaTrue>>]],
      [properties |-> << [k |-> KeyId, v |-> [type |-> "integer"]],
                         [k |-> KeyTags, v |-> [type |-> "array", items |-> [type |-> "string"]]],
                         [k |-> KeyAny, v |-> SchemaTrue],
                         [k |-> KeyNone, v |-> SchemaFalse] >>],
      [required |-> <<KeyId>>],
      [additionalProperties |-> SchemaTrue], [additionalProperties |-> SchemaFalse],
      [additionalProperties |-> [type |-> "string"]],
      [oneOf |-> <<[type |-> "string"], [type |-> "array", items |-> SchemaFalse]>>],
      [anyOf |-> <<SchemaTrue, [type |-> "integer"]>>],
      [allOf |-> <<[ref |-> PointerTo(NamePet)]>>],
      [ref |-> PointerTo(NamePet)],
      [description |-> <<"A", " ", "p", "e", "t">>] }

\* The titles of lines 657 and 658.
TitlePool == { <<"R", "e", "q", "u", "e", "s", "t">>, <<"R", "e", "s", "p", "o", "n", "s", "e">> }

InitTree ==
    /\ LoaderIdle
    /\ schemas = <<>>
    /\ root \in {NoKeyword, SchemaTrue, SchemaFalse}
    /\ leaf = root
    /\ hops = <<>>
    /\ out = Absent
    /\ phase = "schema"
    /\ ResolverIdle
    /\ AggregateIdle
    /\ YamlIdle

\* SchemaPanel, line 345: schema ? schemaToTree(schema, title) : [].
SchemaPanel(title) ==
    /\ phase = "schema"
    /\ out' = IF Truthy(root) THEN schemaToTree(root, title) ELSE <<>>
    /\ phase' = "tree"
    /\ UNCHANGED <<lvars, avars, schemas, root, hops, leaf, rvars, yvars>>

NextTree ==
    \/ \E keyword \in TreeKeywordPool : ~IsBoolSchema(root) /\ Put(keyword)
    \/ \E title \in TitlePool : SchemaPanel(title)

SpecTree == InitTree /\ [][NextTree]_vars

----------------------------------------------------------------------------
(* Claims about the tree builder, checked under SpecTree *)

WrapperCount(s) ==
    Cardinality({f \in {"oneOf", "anyOf", "allOf"} : NonEmpty(s, f)})

\* The node n shown for the schema s: where s has type array and declares
\* items, the children of n are the composition wrappers and then one items
\* child, a leaf "items: any" or "items: never" for a boolean items and else
\* the subtree of the items schema, itself shown in this way.
RECURSIVE ArrayShown(_, _)
ArrayShown(s, n) ==
    (TypeIs(s, "array") /\ Has(s, "items")) =>
        /\ Has(n, "children")
        /\ Len(n.children) = WrapperCount(s) + 1
        /\ \A i \in 1..WrapperCount(s) :
              n.children[i].label \in { <<"o", "n", "e", "O", "f">>, <<"a", "n", "y", "O", "f">>, <<"a", "l", "l", "O", "f">> }
        /\ LET child == n.children[WrapperCount(s) + 1]
           IN /\ child.value = n.value \o <<"[", "]">>
              /\ IF IsBoolSchema(s.items)
                 THEN /\ ~Has(child, "children")
                      /\ child.label = IF s.items.bool THEN <<"i", "t", "e", "m", "s", ":", " ", "a", "n", "y">>
                                       ELSE <<"i", "t", "e", "m", "s", ":", " ", "n", "e", "v", "e", "r">>
                 ELSE /\ child = build(s.items, n.value \o <<"[", "]">>,
                                       <<"i", "t", "e", "m", "s", ":", " ">> \o TypeOrObject(s.items))
                      /\ ArrayShown(s.items, child)

\* C23 as stated: the node of a schema with type array that declares items
\* has, after its composition wrappers, exactly one items child and no
\* property child: a leaf "items: any" for items true, a leaf "items: never"
\* for items false, and else the subtree built from the items schema.
C23_OneItemsChild ==
    (phase = "tree" /\ ~IsBoolSchema(root)) => ArrayShown(root, out[1])

\* The keys of a node and of the nodes below it, one entry per node.
RECURSIVE KeysOf(_)
RECURSIVE KeysOfAll(_)
KeysOf(n) == <<n.value>> \o (IF Has(n, "children") THEN KeysOfAll(n.children) ELSE <<>>)
KeysOfAll(nodes) ==
    IF nodes = <<>> THEN <<>> ELSE KeysOf(nodes[1]) \o KeysOfAll(Tail(nodes))

\* C24 as stated: no two nodes of the tree returned for a schema and a root
\* name have the same key.
C24_KeysDistinct ==
    phase = "tree" =>
        \A i, j \in 1..Len(KeysOfAll(out)) :
            i # j => KeysOfAll(out)[i] # KeysOfAll(out)[j]

----------------------------------------------------------------------------
(* A claim about the methods of an endpoint, checked under SpecAggregate *)

\* The key of the Accordion.Item of a method, line 1588.
ItemKey(path, method) == path \o <<":">> \o method.method \o <<":">> \o method.operationId

\* C25 as stated: after aggregation no endpoint of any service lists an HTTP
\* method twice, so that the keys path:method:operationId of its methods are
\* distinct, whatever the tags of the operations and the letter case of the
\* method keys.
C25_MethodOncePerEndpoint ==
    phase = "aggregated" =>
        \A i \in 1..Len(parsed) : \A j \in 1..Len(parsed[i].endpoints) :
            LET endpoint == parsed[i].endpoints[j]
            IN \A a, b \in 1..Len(endpoint.methods) :
                  a # b => /\ endpoint.methods[a].method # endpoint.methods[b].method
                           /\ ItemKey(endpoint.path, endpoint.methods[a])
                                 # ItemKey(endpoint.path, endpoint.methods[b])

----------------------------------------------------------------------------
(* Claims about overlapping loads, checked under SpecLoad *)

\* The loads that have started a request and have not yet ended.
LoadsInFlight == {i \in 1..Len(loads) : loads[i].pc # "done"}

\* C27 as stated: the loading flag is true exactly while at least one load has
\* started a request and has not yet ended.
C27_LoadingWhileInFlight ==
    loading = (LoadsInFlight # {})

\* The loads that have ended without throwing.
Succeeded(i) == loads[i].pc = "done" /\ ~Throws(loads[i].response)

\* Load i is the one requested last among those that succeeded.
LastSucceeded(i) ==
    /\ Succeeded(i)
    /\ \A j \in 1..Len(loads) : Succeeded(j) => j <= i

\* The title a document declares, if any.
DeclaredTitle(doc) ==
    IF Has(doc, "info") /\ Has(doc.info, "title") THEN JStr(doc.info.title) ELSE JNull

\* What is installed is the result of load i.
InstalledFrom(i) ==
    /\ services = openApiToMicroservices(JsonParse(loads[i].response.body.data))
    /\ loadedSource = JStr(TargetOf(loads[i]))
    /\ specTitle = DeclaredTitle(JsonParse(loads[i].response.body.data))
    /\ previewDoc = JsonParse(loads[i].response.body.data)

\* C28 as stated: once every load has ended, what is installed is the result
\* of the load requested last among those that succeeded, in whatever order
\* the responses arrived.
C28_LatestRequestWins ==
    (loads # <<>> /\ LoadsInFlight = {}) =>
        \A i \in 1..Len(loads) : LastSucceeded(i) => InstalledFrom(i)

\* C29: in every state the services, loadedSource, specTitle and previewDoc
\* are those of one load that succeeded, or nothing is installed; services is
\* non-empty exactly when previewDoc is set, and services is the aggregation of
\* previewDoc.
C29_InstalledFromOneDocument ==
    /\ (services # <<>>) = (previewDoc # JNull)
    /\ previewDoc # JNull => services = openApiToMicroservices(previewDoc)
    /\ \/ services = <<>> /\ loadedSource = JNull /\ specTitle = JNull /\ previewDoc = JNull
       \/ \E i \in 1..Len(loads) : Succeeded(i) /\ InstalledFrom(i)

\* C29 witness: the initial load installed the Petstore document; data/store.json,
\* which declares no title, was loaded after it, and what is installed is that
\* document with its services and no title.
C29_Witness ==
    /\ Len(loads) = 2
    /\ Succeeded(1) /\ Succeeded(2)
    /\ TargetOf(loads[1]) = DEFAULT_SOURCE
    /\ InstalledFrom(2)
    /\ ~InstalledFrom(1)
    /\ specTitle = JNull
    /\ services # <<>>

----------------------------------------------------------------------------
(* A claim about failed loads, checked under SpecGateway *)

EnterMessage == <<"E", "n", "t", "e", "r", " ", "a", " ", "f", "i", "l", "e", " ", "p", "a", "t", "h", " ", "o", "r", " ", "U", "R", "L", ".">>

\* Load i ends in this step.
Ends(i) == i <= Len(loads) /\ loads[i].pc = "answered" /\ loads'[i].pc = "done"

\* The answer makes the load fail: a status outside 200-299, a body that is
\* no JSON, or a document whose aggregation is empty.
Fails(response) ==
    \/ response.status < 200 \/ response.status > 299
    \/ Has(response.body, "garbled")
    \/ openApiToMicroservices(JsonParse(response.body.data)) = <<>>

\* The message a failed load sets: the route's own error text, the load's
\* fallback when the route sent none, and the fixed text for an empty
\* aggregation; for a body that is no JSON, whatever the parser says.
SetsMessage(i) ==
    LET response == loads[i].response
    IN /\ error' # JNull
       /\ (~ResponseOk(response) /\ Has(response.body, "error"))
             => error' = JStr(response.body.error)
       /\ (~ResponseOk(response) /\ ~Has(response.body, "error"))
             => error' = JStr(<<"F", "a", "i", "l", "e", "d", " ", "t", "o", " ", "l", "o", "a", "d", " ">> \o TargetOf(loads[i]))
       /\ (ResponseOk(response) /\ ~Has(response.body, "garbled"))
             => error' = JStr(NoEndpointsMessage)

Installed == <<services, loadedSource, specTitle, previewDoc>>

\* C30: a load that ends in failure sets the error message and leaves
\* services, loadedSource, specTitle and previewDoc as they were; a load of a
\* blank source sets the error, starts no request and leaves the loading flag
\* and what is installed as they were; and every load that ends resets the
\* loading flag.
C30_FailedLoadKeepsDocument ==
    [][/\ \A i \in 1..Len(loads) :
             Ends(i) => /\ loading' = FALSE
                        /\ Fails(loads[i].response) =>
                              (SetsMessage(i) /\ Installed' = Installed)
       /\ (Load /\ Trim(source) = <<>>) =>
             /\ error' = JStr(EnterMessage)
             /\ loads' = loads
             /\ loading' = loading
             /\ Installed' = Installed]_vars

\* C30 witness: after the initial load installed the Petstore document, a
\* second load was answered by a page that is no JSON under the status 200;
\* it has ended, the error is the parser's message, the flag is reset and the
\* Petstore document is still installed.
C30_Witness ==
    /\ Len(loads) = 2
    /\ Succeeded(1)
    /\ loads[2].pc = "done"
    /\ ResponseOk(loads[2].response)
    /\ Unparsable(loads[2].response)
    /\ error = JStr(SyntaxErrorMessage)
    /\ loading = FALSE
    /\ InstalledFrom(1)
    /\ loadedSource = JStr(DEFAULT_SOURCE)

====
